---- MODULE Spec2Model ----
(***************************************************************************)
(* Clinical-Trial-SearchEngine: the retrieval / feasibility / re-ranking   *)
(* pipeline of backend/api/main.py, the feasibility scorer of              *)
(* backend/nlp/feasibility_scorer.py, the criteria parser of               *)
(* backend/nlp/criteria_parser.py and the dense client of                  *)
(* backend/search/vector_search.py.                                        *)
(*                                                                         *)
(* Conventions.                                                            *)
(*  - A Python string that the code compares, lower-cases or searches is a *)
(*    sequence of one-character strings (<<"N","S">>); categorical strings *)
(*    (gender, operators, outcomes) are TLA+ strings.                      *)
(*  - An Optional value is a record [has, val]; None is [has |-> FALSE].   *)
(*  - A Python dict whose keys may be missing carries the set of its keys  *)
(*    in the field "keys"; d['k'] on a missing key is a KeyError.          *)
(*  - The eligibility text is the record of what each regular expression   *)
(*    of the parser and of the scorer captures in it.                      *)
(*  - Floats are exact rationals <<num, den>> with den > 0.                *)
(***************************************************************************)
EXTENDS Integers, Sequences, FiniteSets, TLC

VARIABLES
    \* ---- feasibility scorer called on its own (SpecScore) ----
    sPhase,        \* "in" before the call, "out" after score_patient returned or raised
    sProfile,      \* patient_profile dict
    sText,         \* trial_criteria_text
    sMeta,         \* trial_metadata dict
    sCuis,         \* patient_cuis argument
    sUmls,         \* what _get_umls() returns: TRUE a linker, FALSE None
    sResult,       \* the result of score_patient
    sProfileOut,   \* the patient_profile dict as the call left it
    sMetaOut,      \* the trial_metadata dict (and the cached dict in it) as the call left it
    \* ---- the process (main.py module state) ----
    artifacts,     \* the dense artifacts on disk: "missing", "present", or corrupt
    umlsLoadable,  \* whether loading the UMLS linker succeeds in this process
    vector_search, \* VectorSearch: _loaded, _index, _model, _nct_ids (non-empty)
    feasibility_scorer, \* FeasibilityScorer: _umls_load_attempted, umls (a linker or None)
    norms,         \* the normalizer singletons _normalizer, _b_normalizer (created or not)
    \* ---- one request at a time ----
    pc,            \* "off", "boot", "idle", "lexical", "route", "fetch", "rerank",
                   \* "eval", "respond", "done"
    req,           \* the request: endpoint and parameters
    hits,          \* List[TrialHit]
    total_value,   \* hits.total.value of the lexical response
    path,          \* "main" or "fallback" (dense_only_fallback)
    idx,           \* the loop index of the re-rank loop
    pcuis,         \* patient_cuis: the pre-computed patient CUIs of _apply_feasibility_rerank
    rvals,         \* retrieval_raw_values
    denseRanked,   \* dense_ranked_ids of the fusion
    denseById,     \* dense_results of the fallback, (nct_id, score) in dense order
    resp,          \* the response, status 0 while there is none
    \* ---- history ----
    lexStatus,     \* "none", "ok", "failed": the first lexical query of the request
    lexHits,       \* the hits of the first lexical query, as the backend returned them
    calls,         \* per request: lexical queries, dense searches, feasibility evaluations
    took,          \* per request: fallback entered, fusion done
    preSort,       \* the candidate list as it stood before its last sort
    evaluated,     \* the candidate list after the re-rank loop, before sort and filter
    shared0,       \* the process state when the request arrived
    cancelled,     \* the caller's cancellation signal
    afterCancel,   \* feasibility evaluations started after the signal was set
    \* ---- the criteria parser called on its own (SpecParse) ----
    pPhase,        \* "off", "in" before the call, "out" after parse returned
    pText,         \* criteria_text
    pParsed,       \* the dict parse returned
    \* ---- request threads in FeasibilityScorer._get_umls (SpecLinker) ----
    _umls_load_attempted, \* FeasibilityScorer._umls_load_attempted
    self_umls,     \* FeasibilityScorer.umls: 0 is None, otherwise the linker object
    _instance,     \* UMLSLinker._instance: 0 is None, otherwise the linker object
    initialized,   \* the linker objects whose _initialize has returned
    initRuns,      \* how many times _initialize was entered
    tpc,           \* per thread: where it stands in _get_umls / UMLSLinker.__new__
    tnew,          \* per thread: the object of its UMLSLinker() call (0 while none)
    tret,          \* per thread: what _get_umls returned, and whether a load was
                   \* running and whether a linker was initialized at that moment
    \* ---- the dense client called on its own (SpecDense) ----
    dLog,          \* the calls made to the dense client and what each returned
    \* ---- the offline jobs (SpecIngest, SpecMigrate) ----
    ing,           \* fetch_and_store: the locals of the run and what the runs have done
    idb,           \* the relational store as committed: trials and the ingestion_state row
    mig,           \* migrate: the locals of the run and its open transaction
    mdb            \* the trials table as committed: criteria text and parsed_criteria

scoreVars == <<sPhase, sProfile, sText, sMeta, sCuis, sUmls, sResult, sProfileOut, sMetaOut>>

procVars == <<artifacts, umlsLoadable, vector_search, feasibility_scorer, norms>>

reqVars == <<pc, req, hits, total_value, path, idx, pcuis, rvals, denseRanked,
             denseById, resp>>

histVars == <<lexStatus, lexHits, calls, took, preSort, evaluated, shared0, cancelled, afterCancel>>

parseVars == <<pPhase, pText, pParsed>>

linkerVars == <<_umls_load_attempted, self_umls, _instance, initialized, initRuns,
                tpc, tnew, tret>>

jobVars == <<ing, idb, mig, mdb>>

unitVars == <<parseVars, linkerVars, dLog, jobVars>>

vars == <<scoreVars, procVars, reqVars, histVars, unitVars>>

-----------------------------------------------------------------------------
(* Optional values and small helpers *)

None == [has |-> FALSE, val |-> 0]

Some(v) == [has |-> TRUE, val |-> v]

\* None where the value is a pair of digits, and where it is <<value, unit>>
NonePair == [has |-> FALSE, val |-> <<0, 0>>]

NoneWash == [has |-> FALSE, val |-> <<0, "day">>]

Range(s) == {s[i] : i \in DOMAIN s}

Min2(a, b) == IF a <= b THEN a ELSE b

Max2(a, b) == IF a >= b THEN a ELSE b

RECURSIVE SeqSum(_)
SeqSum(s) == IF s = <<>> THEN 0 ELSE Head(s) + SeqSum(Tail(s))

\* the sequences of length <= n of distinct elements of S
DistinctSeqs(S, n) ==
    UNION {{s \in [1..k -> S] : \A i, j \in 1..k : i # j => s[i] # s[j]} : k \in 0..n}

-----------------------------------------------------------------------------
(* Python strings: str.lower(), the `in` substring test *)

LowerChar(c) ==
    CASE c = "N" -> "n"
      [] c = "S" -> "s"
      [] c = "M" -> "m"
      [] c = "P" -> "p"
      [] c = "E" -> "e"
      [] c = "H" -> "h"
      [] OTHER   -> c

Lower(s) == [i \in DOMAIN s |-> LowerChar(s[i])]

\* Python `a in b` for strings: a occurs in b as a contiguous run ("" is in every string)
IsSubstr(a, b) ==
    \E i \in 0..(Len(b) - Len(a)) : SubSeq(b, i + 1, i + Len(a)) = a

\* str.capitalize() on the gender strings the model uses
Capitalize(g) ==
    CASE g = "male"   -> "Male"
      [] g = "MALE"   -> "Male"
      [] g = "female" -> "Female"
      [] g = "FEMALE" -> "Female"
      [] g = "all"    -> "All"
      [] g = "ALL"    -> "All"
      [] OTHER        -> g

\* str.upper() on the sex strings the model uses
Upper(g) ==
    CASE g \in {"male", "Male", "MALE"}       -> "MALE"
      [] g \in {"female", "Female", "FEMALE"} -> "FEMALE"
      [] g \in {"all", "All", "ALL"}          -> "ALL"
      [] OTHER                                -> g

\* sample strings
sNSCLC == <<"N", "S">>

sNsclcLong == <<"n", "s", " ", "x">>

sMelanoma == <<"M">>

sPregnancy == <<"P">>

sHIV == <<"H">>

sEGFR == <<"E">>

sCreat == <<"c">>

sHgb == <<"g">>

-----------------------------------------------------------------------------
(* Floats as exact rationals <<num, den>>, den > 0, in lowest terms *)

RECURSIVE GCD(_, _)
GCD(a, b) == IF b = 0 THEN a ELSE GCD(b, a % b)

Rat(n, d) == LET g == GCD(IF n < 0 THEN -n ELSE n, d) IN <<n \div g, d \div g>>

RatInt(n) == <<n, 1>>

RatAdd(a, b) == Rat(a[1] * b[2] + b[1] * a[2], a[2] * b[2])

RatSub(a, b) == Rat(a[1] * b[2] - b[1] * a[2], a[2] * b[2])

RatMul(a, b) == Rat(a[1] * b[1], a[2] * b[2])

\* a / b for b > 0
RatDiv(a, b) == Rat(a[1] * b[2], a[2] * b[1])

RatLt(a, b) == a[1] * b[2] < b[1] * a[2]

RatLe(a, b) == a[1] * b[2] <= b[1] * a[2]

RECURSIVE RatMinSeq(_)
RatMinSeq(s) ==
    IF Len(s) = 1 THEN s[1]
    ELSE LET m == RatMinSeq(Tail(s)) IN IF RatLe(s[1], m) THEN s[1] ELSE m

RECURSIVE RatMaxSeq(_)
RatMaxSeq(s) ==
    IF Len(s) = 1 THEN s[1]
    ELSE LET m == RatMaxSeq(Tail(s)) IN IF RatLe(m, s[1]) THEN s[1] ELSE m

NoneRat == [has |-> FALSE, val |-> <<0, 1>>]

-----------------------------------------------------------------------------
(* list.sort(key=lambda h: h.score, reverse=True): a stable sort, descending; *)
(* reverse=True keeps equal elements in their original order                  *)

\* a descending sort that puts an element before the equal ones already placed
\* (what sorting ascending and reversing the list does)
RECURSIVE InsertDescUnstable(_, _)
InsertDescUnstable(s, x) ==
    IF s = <<>> THEN <<x>>
    ELSE IF RatLe(Head(s).score, x.score) THEN <<x>> \o s
    ELSE <<Head(s)>> \o InsertDescUnstable(Tail(s), x)

\* x placed after every element whose score is >= its own
RECURSIVE InsertDesc(_, _)
InsertDesc(s, x) ==
    IF s = <<>> THEN <<x>>
    ELSE IF RatLt(Head(s).score, x.score) THEN <<x>> \o s
    ELSE <<Head(s)>> \o InsertDesc(Tail(s), x)

RECURSIVE SortInto(_, _)
SortInto(acc, rest) ==
    IF rest = <<>> THEN acc ELSE SortInto(InsertDesc(acc, Head(rest)), Tail(rest))

SortByScoreDesc(hs) == SortInto(<<>>, hs)

-----------------------------------------------------------------------------
(* Rank fusion and score normalisation (main.py) *)

\* the sum of 1/(k + rank + 1) over the 0-based ranks at which id stands in the list
RECURSIVE RrfInList(_, _, _, _)
RrfInList(rank_list, id, k, i) ==
    IF i > Len(rank_list) THEN RatInt(0)
    ELSE RatAdd(IF rank_list[i] = id THEN Rat(1, k + (i - 1) + 1) ELSE RatInt(0),
                RrfInList(rank_list, id, k, i + 1))

RECURSIVE RrfSum(_, _, _)
RrfSum(rank_lists, id, k) ==
    IF rank_lists = <<>> THEN RatInt(0)
    ELSE RatAdd(RrfInList(Head(rank_lists), id, k, 1), RrfSum(Tail(rank_lists), id, k))

\* reciprocal rank fusion over 0-based ranks: 1/(k + rank)
RrfZeroBased(rank_lists, k) ==
    [id \in UNION {Range(rank_lists[i]) : i \in DOMAIN rank_lists} |->
        RrfSum(rank_lists, id, k - 1)]

\* compute_rrf: the map nct_id -> rrf score, over the ids of the lists
compute_rrf(rank_lists, k) ==
    [id \in UNION {Range(rank_lists[i]) : i \in DOMAIN rank_lists} |->
        RrfSum(rank_lists, id, k)]

\* _normalize_scores: min-max; the result is keyed by the position in `scores`
\* (the code's keys "0", "1", ... are the positions 1, 2, ... here)
_normalize_scores(scores) ==
    IF scores = <<>> THEN <<>>
    ELSE LET min_s == RatMinSeq(scores)
             max_s == RatMaxSeq(scores)
         IN  IF max_s = min_s THEN [i \in DOMAIN scores |-> RatInt(1)]
             ELSE [i \in DOMAIN scores |->
                      RatDiv(RatSub(scores[i], min_s), RatSub(max_s, min_s))]

\* _norm of _apply_feasibility_rerank
_norm(val, v_min, v_max) ==
    IF RatLe(v_max, v_min) THEN RatInt(1)
    ELSE RatDiv(RatSub(val, v_min), RatSub(v_max, v_min))


-----------------------------------------------------------------------------
(* Criteria parser (criteria_parser.py).  The text is the record of the    *)
(* captures of the parser's and the scorer's regular expressions:          *)
(*   present      the text is non-empty                                    *)
(*   ageMin/Max   group(1) of min_match / max_match of _extract_age        *)
(*   hasFemale, hasMale     the two searches of _extract_gender            *)
(*   inclConds, exclConds   dictionary keys matched in the inclusion half  *)
(*                          and in the exclusion half, in dictionary order *)
(*   bios         clean biomarker names matched                            *)
(*   ecogRange, ecogLte, ecogSimple   the three ECOG patterns              *)
(*   labs         per lab key: clean name, raw operator, value             *)
(*   washChemo, washSurg    <<value, unit>> of the washout patterns        *)
(*   naive, linesMin, linesMax        the patterns of _extract_lines       *)
(*   reLinesMin, reLinesMax           the scorer's own prior-lines regexes *)
(*   exclFlags    the flags appended by _extract_exclusions, in order      *)

EmptyText ==
    [present |-> FALSE, ageMin |-> None, ageMax |-> None,
     hasFemale |-> FALSE, hasMale |-> FALSE,
     inclConds |-> <<>>, exclConds |-> <<>>, bios |-> <<>>,
     ecogRange |-> NonePair, ecogLte |-> None, ecogSimple |-> NonePair,
     labs |-> <<>>, washChemo |-> NoneWash, washSurg |-> NoneWash,
     naive |-> FALSE, linesMin |-> None, linesMax |-> None,
     reLinesMin |-> None, reLinesMax |-> None, exclFlags |-> <<>>]

PlainText == [EmptyText EXCEPT !.present = TRUE]

_extract_age(text) ==
    LET min0 == IF text.ageMin.has THEN text.ageMin.val ELSE 0
        max0 == IF text.ageMax.has THEN text.ageMax.val ELSE 100
        min1 == IF min0 > 120 THEN 0 ELSE min0
        max1 == IF max0 > 120 THEN 100 ELSE max0
        max2 == IF min1 > max1 THEN 100 ELSE max1
    IN  <<min1, max2>>

_extract_gender(text) ==
    IF text.hasFemale /\ ~text.hasMale THEN "Female"
    ELSE IF text.hasMale /\ ~text.hasFemale THEN "Male"
    ELSE "All"

\* sorted(list(allowed_scores)) for scores within 0..9
SortedDigits(S) ==
    LET F[n \in 0..10] ==
            IF n = 10 THEN <<>>
            ELSE IF n \in S THEN <<n>> \o F[n + 1] ELSE F[n + 1]
    IN  F[0]

_extract_ecog(text) ==
    LET fromRange ==
            IF text.ecogRange.has
               /\ text.ecogRange.val[1] <= text.ecogRange.val[2]
               /\ text.ecogRange.val[2] <= 5
            THEN text.ecogRange.val[1] .. text.ecogRange.val[2] ELSE {}
        fromLte ==
            IF text.ecogLte.has /\ text.ecogLte.val <= 5
            THEN 0 .. text.ecogLte.val ELSE {}
        first == fromRange \cup fromLte
        fromSimple ==
            IF first = {} /\ text.ecogSimple.has
            THEN {text.ecogSimple.val[1], text.ecogSimple.val[2]} ELSE {}
    IN  SortedDigits(first \cup fromSimple)

\* the operator normalisation of _extract_labs
NormalizeOp(raw_op) ==
    IF raw_op \in {"greater than", ">", ">=", "GE"} THEN ">"
    ELSE IF raw_op \in {"less than", "<", "<=", "LE", "up to"} THEN "<"
    ELSE IF raw_op = "equals" THEN "="
    ELSE raw_op

_extract_labs(text) ==
    [i \in DOMAIN text.labs |->
        [name |-> text.labs[i].name,
         operator |-> NormalizeOp(text.labs[i].raw_op),
         value |-> text.labs[i].value]]

to_days(val, unit) ==
    IF unit = "week" THEN val * 7
    ELSE IF unit = "month" THEN val * 30
    ELSE val

_extract_temporal(text) ==
    [chemo_washout |-> IF text.washChemo.has
                       THEN Some(to_days(text.washChemo.val[1], text.washChemo.val[2]))
                       ELSE None,
     surgery_washout |-> IF text.washSurg.has
                         THEN Some(to_days(text.washSurg.val[1], text.washSurg.val[2]))
                         ELSE None]

_extract_lines(text) ==
    IF text.naive THEN [min |-> 0, max |-> 0]
    ELSE [min |-> IF text.linesMin.has THEN text.linesMin.val ELSE 0,
          max |-> IF text.linesMax.has THEN text.linesMax.val ELSE 100]

AllKeys ==
    {"conditions", "biomarkers", "ecog", "labs", "exclusions", "age_range",
     "gender", "temporal", "lines_of_therapy"}

\* the dict {} : no key at all
EmptyDict ==
    [keys |-> {}, conditions |-> <<>>, biomarkers |-> <<>>, ecog |-> <<>>,
     labs |-> <<>>, exclusions |-> <<>>, age_range |-> <<0, 100>>,
     gender |-> "All", temporal |-> [chemo_washout |-> None, surgery_washout |-> None],
     lines_of_therapy |-> [min |-> 0, max |-> 100]]

Parse(text) ==
    IF ~text.present THEN EmptyDict
    ELSE [keys |-> AllKeys,
          conditions |-> text.inclConds,
          biomarkers |-> text.bios,
          ecog |-> _extract_ecog(text),
          labs |-> _extract_labs(text),
          exclusions |-> text.exclFlags \o text.exclConds,
          age_range |-> _extract_age(text),
          gender |-> _extract_gender(text),
          temporal |-> _extract_temporal(text),
          lines_of_therapy |-> _extract_lines(text)]


-----------------------------------------------------------------------------
(* Feasibility scorer (feasibility_scorer.py)                              *)

\* a reason string: its kind and the flag it names (<<>> when it names none)
Reason(kind, what) == [kind |-> kind, what |-> what]

\* the linker's extract_cuis on the sample strings (an external capability)
LinkerCuis(text) ==
    IF Lower(text) = Lower(sNSCLC) THEN {"C1"}
    ELSE IF text = sMelanoma THEN {"C2"}
    ELSE {}

\* what one rule of score_patient adds: points, whether it leaves the trial feasible, reasons
RuleOut(pts, ok, reasons) == [pts |-> pts, ok |-> ok, reasons |-> reasons]

NoRule == RuleOut(0, TRUE, <<>>)

\* step 2 of score_patient: trial_data after the override with the DB metadata
Override(trial_data, meta) ==
    IF ~meta.given THEN trial_data
    ELSE LET a1 == IF meta.min_age_years.has
                   THEN <<meta.min_age_years.val, trial_data.age_range[2]>>
                   ELSE trial_data.age_range
             a2 == IF meta.max_age_years.has
                   THEN <<a1[1], meta.max_age_years.val>>
                   ELSE a1
             g  == IF meta.sex # ""
                   THEN (IF Upper(meta.sex) = "MALE" THEN "Male"
                         ELSE IF Upper(meta.sex) = "FEMALE" THEN "Female"
                         ELSE "All")
                   ELSE trial_data.gender
         IN  [trial_data EXCEPT !.age_range = a2,
                                !.gender = g,
                                !.keys = IF meta.sex # "" THEN @ \cup {"gender"} ELSE @]

\* the override writes trial_data['age_range'][i]: a KeyError when the key is missing
OverrideRaises(trial_data, meta) ==
    /\ meta.given
    /\ meta.min_age_years.has \/ meta.max_age_years.has
    /\ "age_range" \notin trial_data.keys

\* the first exclusion of the list that the patient has, if any
\* the exclusion loop looking at the first exclusion only
FirstExclusionHeadOnly(exclusions, issues) ==
    IF exclusions # <<>> /\ Head(exclusions) \in issues
    THEN [has |-> TRUE, val |-> Head(exclusions)]
    ELSE [has |-> FALSE, val |-> <<>>]

RECURSIVE FirstExclusion(_, _)
FirstExclusion(exclusions, issues) ==
    IF exclusions = <<>> THEN [has |-> FALSE, val |-> <<>>]
    ELSE IF Head(exclusions) \in issues THEN [has |-> TRUE, val |-> Head(exclusions)]
    ELSE FirstExclusion(Tail(exclusions), issues)

\* the condition rule without the string fallback
ConditionRuleCuisOnly(profile, trial_data, db_conditions, db_cuis, patient_cuis, umls) ==
    LET patient_conditions == Range(profile.conditions)
        cuis == IF patient_cuis.has THEN patient_cuis.val
                ELSE UNION {LinkerCuis(c) : c \in patient_conditions}
    IN  IF patient_conditions = {}
        THEN RuleOut(5, TRUE, <<Reason("No patient conditions", <<>>)>>)
        ELSE IF umls /\ (cuis \cap Range(db_cuis)) # {}
        THEN RuleOut(40, TRUE, <<Reason("Condition Match", <<>>)>>)
        ELSE RuleOut(0, FALSE, <<Reason("Condition Mismatch", <<>>)>>)

ConditionRule(profile, trial_data, db_conditions, db_cuis, patient_cuis, umls) ==
    LET patient_conditions == Range(profile.conditions)
        all_trial_indications == Range(trial_data.conditions) \cup Range(db_conditions)
        patient_cond_lower == {Lower(c) : c \in patient_conditions}
        trial_cond_lower == {Lower(c) : c \in all_trial_indications}
        cuis == IF patient_cuis.has THEN patient_cuis.val
                ELSE UNION {LinkerCuis(c) : c \in patient_conditions}
        umls_match == umls /\ (cuis \cap Range(db_cuis)) # {}
        string_match == \E p \in patient_cond_lower : \E t \in trial_cond_lower :
                            IsSubstr(p, t) \/ IsSubstr(t, p)
    IN  IF patient_conditions = {}
        THEN RuleOut(5, TRUE, <<Reason("No patient conditions", <<>>)>>)
        ELSE IF umls_match \/ string_match
        THEN RuleOut(40, TRUE, <<Reason("Condition Match", <<>>)>>)
        ELSE RuleOut(0, FALSE, <<Reason("Condition Mismatch", <<>>)>>)

BiomarkerRule(profile, trial_data) ==
    IF (Range(profile.biomarkers) \cap Range(trial_data.biomarkers)) # {}
    THEN RuleOut(25, TRUE, <<Reason("Biomarker Match", <<>>)>>)
    ELSE NoRule

EcogRule(profile, trial_data) ==
    IF trial_data.ecog # <<>> /\ profile.ecog.has
    THEN IF profile.ecog.val \in Range(trial_data.ecog)
         THEN RuleOut(15, TRUE, <<Reason("ECOG allowed", <<>>)>>)
         ELSE RuleOut(0, FALSE, <<Reason("ECOG excluded", <<>>)>>)
    ELSE NoRule

\* the inequality chain of the lab rule: only > >= < <= are evaluated
LabPassed(op, val, threshold) ==
    \/ op = ">" /\ val > threshold
    \/ op = ">=" /\ val >= threshold
    \/ op = "<" /\ val < threshold
    \/ op = "<=" /\ val <= threshold

\* the labs of the trial for which the patient has a value, in the dict's order
CheckedLabs(profile, trial_labs) ==
    SelectSeq(trial_labs, LAMBDA rule :
        \E j \in DOMAIN profile.labs :
            profile.labs[j].name = rule.name /\ profile.labs[j].value.has)

PatientLab(profile, name) ==
    profile.labs[CHOOSE j \in DOMAIN profile.labs : profile.labs[j].name = name].value.val

LabRule(profile, trial_data) ==
    LET trial_labs == IF "labs" \in trial_data.keys THEN trial_data.labs ELSE <<>>
        checked == CheckedLabs(profile, trial_labs)
        pass(rule) == LabPassed(rule.operator, PatientLab(profile, rule.name), rule.value)
        lab_points == 5 * Cardinality({i \in DOMAIN checked : pass(checked[i])})
        lab_failures == Cardinality({i \in DOMAIN checked : ~pass(checked[i])})
        each == [i \in DOMAIN checked |->
                    IF pass(checked[i]) THEN Reason("Lab Passed", checked[i].name)
                    ELSE Reason("Lab Failed", checked[i].name)]
    IN  RuleOut(Min2(lab_points, 15), lab_failures = 0,
                IF lab_failures > 0
                THEN Append(each, Reason("critical labs failed", <<>>))
                ELSE each)

AgeRule(profile, trial_data) ==
    IF profile.age.has
    THEN IF trial_data.age_range[1] <= profile.age.val
            /\ profile.age.val <= trial_data.age_range[2]
         THEN RuleOut(5, TRUE, <<Reason("Age matched", <<>>)>>)
         ELSE RuleOut(0, FALSE, <<Reason("Age outside", <<>>)>>)
    ELSE NoRule

\* "7. PRIOR LINES OF THERAPY": the scorer's own regexes over the criteria text
PriorLinesTextRule(profile, text) ==
    IF ~profile.prior_lines.has THEN NoRule
    ELSE LET p_lines == profile.prior_lines.val
             lo == IF ~text.reLinesMin.has THEN NoRule
                   ELSE IF p_lines >= text.reLinesMin.val
                   THEN RuleOut(10, TRUE, <<Reason("Prior Lines >= min", <<>>)>>)
                   ELSE RuleOut(0, FALSE, <<Reason("Prior Lines < min", <<>>)>>)
             hi == IF ~text.reLinesMax.has THEN NoRule
                   ELSE IF p_lines <= text.reLinesMax.val
                   THEN RuleOut(10, TRUE, <<Reason("Prior Lines <= max", <<>>)>>)
                   ELSE RuleOut(0, FALSE, <<Reason("Prior Lines > max", <<>>)>>)
         IN  RuleOut(lo.pts + hi.pts, lo.ok /\ hi.ok, lo.reasons \o hi.reasons)

GenderRule(profile, trial_data) ==
    IF profile.gender = "" THEN NoRule
    ELSE IF trial_data.gender = "All"
    THEN RuleOut(5, TRUE, <<Reason("Gender matched (All)", <<>>)>>)
    ELSE IF Capitalize(profile.gender) = trial_data.gender
    THEN RuleOut(5, TRUE, <<Reason("Gender matched", <<>>)>>)
    ELSE RuleOut(0, FALSE, <<Reason("Gender Mismatch", <<>>)>>)

WashoutRule(profile, trial_data) ==
    LET t_washout == IF "temporal" \in trial_data.keys
                     THEN trial_data.temporal.chemo_washout ELSE None
        p_washout == profile.days_since_last_treatment
    IN  IF p_washout.has /\ t_washout.has
        THEN IF p_washout.val >= t_washout.val
             THEN RuleOut(5, TRUE, <<Reason("Washout Cleared", <<>>)>>)
             ELSE RuleOut(0, FALSE, <<Reason("Washout Fail", <<>>)>>)
        ELSE NoRule

\* "8. LINES OF THERAPY": the parsed lines_of_therapy rule
LinesRule(profile, trial_data) ==
    LET lines_rule == IF "lines_of_therapy" \in trial_data.keys
                      THEN trial_data.lines_of_therapy
                      ELSE [min |-> 0, max |-> 999]
    IN  IF profile.prior_lines.has
        THEN IF lines_rule.min <= profile.prior_lines.val
                /\ profile.prior_lines.val <= lines_rule.max
             THEN RuleOut(10, TRUE, <<Reason("Lines of Therapy", <<>>)>>)
             ELSE RuleOut(0, FALSE, <<Reason("Lines Fail", <<>>)>>)
        ELSE NoRule

\* _compile_result without the clamp at 100
CompileNoClamp(score, is_feasible, reasons, trial_data) ==
    [raised |-> FALSE,
     score |-> IF is_feasible THEN score ELSE 0,
     is_feasible |-> is_feasible,
     reasons |-> reasons,
     parsed_criteria |-> trial_data]

_compile_result(score, is_feasible, reasons, trial_data) ==
    [raised |-> FALSE,
     score |-> IF is_feasible THEN Min2(score, 100) ELSE 0,
     is_feasible |-> is_feasible,
     reasons |-> reasons,
     parsed_criteria |-> trial_data]

\* score_patient raised: the exception reaches the caller
Raised(what, trial_data) ==
    [raised |-> TRUE, score |-> 0, is_feasible |-> FALSE,
     reasons |-> <<Reason("KeyError", <<what>>)>>, parsed_criteria |-> trial_data]

\* the keys score_patient reads with trial_data[...] after the hard exclusions, in order
RequiredKeys == <<"conditions", "biomarkers", "ecog", "age_range", "gender">>

MissingKey(trial_data) ==
    LET miss == SelectSeq(RequiredKeys, LAMBDA k : k \notin trial_data.keys)
    IN  IF miss = <<>> THEN "" ELSE Head(miss)

\* the rules in the order their reasons are appended
Rules(profile, text, trial_data, meta, patient_cuis, umls) ==
    << ConditionRule(profile, trial_data,
                     IF meta.given THEN meta.conditions ELSE <<>>,
                     IF meta.given THEN meta.conditions_cuis ELSE <<>>,
                     patient_cuis, umls),
       BiomarkerRule(profile, trial_data),
       EcogRule(profile, trial_data),
       LabRule(profile, trial_data),
       AgeRule(profile, trial_data),
       PriorLinesTextRule(profile, text),
       GenderRule(profile, trial_data),
       WashoutRule(profile, trial_data),
       LinesRule(profile, trial_data) >>

RECURSIVE ConcatReasons(_)
ConcatReasons(rs) ==
    IF rs = <<>> THEN <<>> ELSE Head(rs).reasons \o ConcatReasons(Tail(rs))

score_patient(profile, text, meta, patient_cuis, umls) ==
    LET cached == meta.given /\ meta.parsed_criteria.keys # {}
        trial_data0 == IF cached THEN meta.parsed_criteria ELSE Parse(text)
    IN  IF OverrideRaises(trial_data0, meta) THEN Raised("age_range", trial_data0)
        ELSE
        LET trial_data == Override(trial_data0, meta)
            issues == Range(profile.conditions) \cup Range(profile.history)
            parsed_exclusions == IF "exclusions" \in trial_data.keys
                                 THEN trial_data.exclusions ELSE <<>>
            hard == FirstExclusion(parsed_exclusions, issues)
        IN  IF hard.has
            THEN _compile_result(0, FALSE, <<Reason("Hard Exclusion", hard.val)>>, trial_data)
            ELSE IF MissingKey(trial_data) # ""
            THEN Raised(MissingKey(trial_data), trial_data)
            ELSE LET rules == Rules(profile, text, trial_data, meta, patient_cuis, umls)
                 IN  _compile_result(
                        SeqSum([i \in DOMAIN rules |-> rules[i].pts]),
                        \A i \in DOMAIN rules : rules[i].ok,
                        ConcatReasons(rules),
                        trial_data)


-----------------------------------------------------------------------------
(* Condition and biomarker normalizers (condition_normalizer.py,           *)
(* biomarker_normalizer.py)                                                *)

IsWordChar(c) == c # " "

\* whether the regex \b matches at position p of text (between text[p] and text[p+1])
BoundaryAt(text, p) ==
    LET left == p >= 1 /\ IsWordChar(text[p])
        right == p < Len(text) /\ IsWordChar(text[p + 1])
    IN  left # right

\* re.search(r'\b' + re.escape(term) + r'\b', text)
WordMatch(term, text) ==
    \E i \in 0..(Len(text) - Len(term)) :
        /\ SubSeq(text, i + 1, i + Len(term)) = term
        /\ BoundaryAt(text, i)
        /\ BoundaryAt(text, i + Len(term))

\* re.search(r"\\b" + re.escape(term) + r"\\b", text): the pattern asks for the two
\* characters backslash and b on both sides of the term
BackslashBMatch(term, text) ==
    IsSubstr(<<"\\", "b">> \o term \o <<"\\", "b">>, text)

RECURSIVE StripLeft(_)
StripLeft(s) == IF s # <<>> /\ Head(s) = " " THEN StripLeft(Tail(s)) ELSE s

RECURSIVE StripRight(_)
StripRight(s) ==
    IF s # <<>> /\ s[Len(s)] = " " THEN StripRight(SubSeq(s, 1, Len(s) - 1)) ELSE s

Strip(s) == StripRight(StripLeft(s))

\* reverse_lookup of the sample synonym dictionary, in insertion order: <<synonym, key>>
ConditionLookup == << <<Lower(sNSCLC), sNSCLC>>, <<Lower(sMelanoma), sMelanoma>> >>

BiomarkerLookup == << <<Lower(sEGFR), sEGFR>> >>

\* the synonyms of the lookup (the keys of reverse_lookup)
Synonyms(lookup) == {lookup[i][1] : i \in DOMAIN lookup}

\* the key of the first entry of the lookup whose synonym is in matching, <<>> (None) if none
FirstKey(lookup, matching) ==
    LET found == SelectSeq(lookup, LAMBDA e : e[1] \in matching)
    IN  IF found = <<>> THEN <<>> ELSE Head(found)[2]

\* ConditionNormalizer.normalize; <<>> stands for None
NormalizeCondition(condition_text) ==
    LET normalized_input == Strip(Lower(condition_text))
        syns == Synonyms(ConditionLookup)
        exact == FirstKey(ConditionLookup, {syn \in syns : syn = normalized_input})
        partial == FirstKey(ConditionLookup, {syn \in syns : WordMatch(syn, normalized_input)})
        reverse == FirstKey(ConditionLookup, {syn \in syns : WordMatch(normalized_input, syn)})
    IN  IF exact # <<>> THEN exact ELSE IF partial # <<>> THEN partial ELSE reverse

\* BiomarkerNormalizer.normalize; <<>> stands for None
NormalizeBiomarker(biomarker_text) ==
    LET text == Strip(Lower(biomarker_text))
        syns == Synonyms(BiomarkerLookup)
        exact == FirstKey(BiomarkerLookup, {syn \in syns : syn = text})
        partial == FirstKey(BiomarkerLookup, {syn \in syns : BackslashBMatch(syn, text)})
        reverse == FirstKey(BiomarkerLookup, {syn \in syns : BackslashBMatch(text, syn)})
    IN  IF biomarker_text = <<>> THEN <<>>
        ELSE IF exact # <<>> THEN exact ELSE IF partial # <<>> THEN partial ELSE reverse

\* normalize of the normalizer of the given kind
NormalizeWith(kind, item) ==
    IF kind = "condition" THEN NormalizeCondition(item) ELSE NormalizeBiomarker(item)

\* normalize_list of both normalizers: the keys found, first occurrence only
RECURSIVE normalize_list(_, _, _)
normalize_list(kind, items, normalized) ==
    IF items = <<>> THEN normalized
    ELSE LET key == NormalizeWith(kind, Head(items))
         IN  normalize_list(kind, Tail(items),
                            IF key # <<>> /\ key \notin Range(normalized)
                            THEN Append(normalized, key) ELSE normalized)

-----------------------------------------------------------------------------
(* The process: lazy loads of the dense index and of the UMLS linker       *)

\* a load that does not look whether the artifacts exist
VsLoadIgnoresMissing(v, arts) ==
    [_loaded |-> TRUE, _index |-> TRUE, _model |-> TRUE, _nct_ids |-> TRUE]

\* VectorSearch._load for artifacts that are missing, or present with or without ids
VsLoad(v, arts) ==
    IF v._loaded THEN v
    ELSE IF arts = "missing"
    THEN [v EXCEPT !._loaded = TRUE]
    ELSE [_loaded |-> TRUE, _index |-> TRUE, _model |-> TRUE, _nct_ids |-> arts = "present"]

\* VectorSearch.ready, on the object after its _load
VsReady(v) == v._index /\ v._model /\ v._nct_ids

\* FeasibilityScorer._get_umls: the scorer after the call
GetUmls(u, loadable) ==
    IF u._umls_load_attempted THEN u
    ELSE [_umls_load_attempted |-> TRUE, umls |-> loadable]

\* FeasibilityScorer.extract_cuis on the scorer after _get_umls
extract_cuis(u, text_list) ==
    IF ~u.umls THEN {} ELSE UNION {LinkerCuis(t) : t \in Range(text_list)}

VsNew == [_loaded |-> FALSE, _index |-> FALSE, _model |-> FALSE, _nct_ids |-> FALSE]

UmlsNew == [_umls_load_attempted |-> FALSE, umls |-> FALSE]

NormsNew == [_normalizer |-> FALSE, _b_normalizer |-> FALSE]

-----------------------------------------------------------------------------
(* Values of the request variables while no request is being served        *)

NoProfile ==
    [age |-> None, gender |-> "", conditions |-> <<>>, history |-> <<>>,
     biomarkers |-> <<>>, ecog |-> None, labs |-> <<>>,
     prior_lines |-> None, days_since_last_treatment |-> None]

NoReq ==
    [endpoint |-> "", q |-> <<>>, page |-> 1, size |-> 1, bm25_weight |-> 5,
     has_profile |-> FALSE, patient_profile |-> NoProfile, feasibility_weight |-> 6,
     use_candidate_total |-> FALSE, body_profile |-> NoProfile]

NoResp ==
    [status |-> 0, total |-> 0, page |-> 0, size |-> 0, hits |-> <<>>,
     candidate_total |-> None, truncated |-> FALSE]

NoCalls == [lexical |-> 0, dense |-> 0, feasibility |-> 0, scorer |-> 0]

NoTook == [fallback |-> FALSE, fusion |-> FALSE]

\* the request and history variables between two requests
Quiet ==
    /\ req = NoReq
    /\ hits = <<>>
    /\ total_value = 0
    /\ path = "main"
    /\ idx = 0
    /\ pcuis = [has |-> FALSE, val |-> {}]
    /\ rvals = <<>>
    /\ denseRanked = <<>>
    /\ denseById = <<>>
    /\ resp = NoResp
    /\ lexStatus = "none"
    /\ lexHits = <<>>
    /\ calls = NoCalls
    /\ took = NoTook
    /\ preSort = <<>>
    /\ evaluated = <<>>
    /\ cancelled = FALSE
    /\ afterCancel = 0

-----------------------------------------------------------------------------
(* The scorer on its own: Init draws the arguments of one call of          *)
(* score_patient, Score performs the call.                                 *)

LabNames == <<sCreat, sHgb, <<"a">>, <<"b">>>>

ScoreLabs ==
    {<<>>,
     [i \in 1..4 |-> [name |-> LabNames[i], value |-> IF i = 2 THEN None ELSE Some(10)]],
     [i \in 1..4 |-> [name |-> LabNames[i], value |-> Some(10)]]}

ScoreProfiles ==
    {[age |-> a, gender |-> g, conditions |-> c, history |-> h,
      biomarkers |-> be[1], ecog |-> be[2], labs |-> l,
      prior_lines |-> pd[1], days_since_last_treatment |-> pd[2]] :
        a \in {None, Some(17), Some(60)},
        g \in {"", "male"},
        c \in {<<>>, <<sNSCLC>>, <<sPregnancy, sMelanoma>>},
        h \in {<<>>, <<sHIV>>},
        be \in {<<(<<>>), None>>, <<(<<sEGFR>>), Some(1)>>, <<(<<sEGFR>>), Some(3)>>},
        l \in ScoreLabs,
        pd \in {<<None, None>>, <<Some(2), Some(14)>>}}

\* a criteria text every rule can score on
RichText ==
    [PlainText EXCEPT
        !.ageMin = Some(18), !.hasMale = TRUE, !.hasFemale = TRUE,
        !.inclConds = <<sNSCLC>>, !.bios = <<sEGFR>>,
        !.ecogLte = Some(2),
        !.labs = [i \in 1..4 |-> [name |-> LabNames[i], raw_op |-> ">=", value |-> 5]],
        !.washChemo = Some(<<2, "week">>),
        !.linesMin = Some(1), !.linesMax = Some(3),
        !.reLinesMin = Some(1), !.reLinesMax = Some(3),
        !.exclFlags = <<sHIV>>, !.exclConds = <<sMelanoma>>]

\* a criteria text the sample patients fail
StrictText ==
    [PlainText EXCEPT
        !.ageMin = Some(65), !.ageMax = Some(40), !.hasFemale = TRUE,
        !.inclConds = <<sMelanoma>>,
        !.ecogRange = Some(<<0, 1>>),
        !.labs = <<[name |-> sCreat, raw_op |-> "<=", value |-> 10],
                   [name |-> sHgb, raw_op |-> "equals", value |-> 10]>>,
        !.washChemo = Some(<<1, "month">>),
        !.naive = TRUE, !.reLinesMax = Some(1),
        !.exclFlags = <<sPregnancy, sPregnancy>>]

ScoreTexts == {EmptyText, PlainText, RichText, StrictText}

\* cached parsed_criteria: none ({}), records with every key as the migration writes
\* them, a record without the keys read by trial_data[...] after the exclusion check,
\* and a record without the keys read by trial_data.get(...)
ScoreCaches ==
    {EmptyDict,
     [Parse(RichText) EXCEPT !.labs = [i \in 1..4 |-> [@[i] EXCEPT !.operator = ">="]]],
     [Parse(StrictText) EXCEPT !.keys = @ \ {"conditions", "biomarkers"}],
     [Parse(RichText) EXCEPT
        !.keys = @ \ {"exclusions", "labs", "temporal", "lines_of_therapy"}]}

NoMeta ==
    [given |-> FALSE, min_age_years |-> None, max_age_years |-> None, sex |-> "",
     conditions |-> <<>>, conditions_cuis |-> <<>>, parsed_criteria |-> EmptyDict]

ScoreMetas ==
    {NoMeta} \cup
    {[given |-> TRUE, min_age_years |-> as[1], max_age_years |-> None, sex |-> as[2],
      conditions |-> <<>>, conditions_cuis |-> cu, parsed_criteria |-> cache] :
        as \in {<<None, "">>, <<Some(18), "MALE">>},
        cu \in {<<>>, <<"C1">>},
        cache \in ScoreCaches}

NoResult ==
    [raised |-> FALSE, score |-> 0, is_feasible |-> FALSE, reasons |-> <<>>,
     parsed_criteria |-> EmptyDict]

\* the request threads of the process that may use the linker at the same time
NumThreads == 2

Threads == 1..NumThreads

\* a thread that has not returned from _get_umls
NoReturn == [done |-> FALSE, val |-> 0, loading |-> FALSE, loaded |-> FALSE]

\* the parser, the linker threads and the dense client when they are not exercised
ParseOff == pPhase = "off" /\ pText = EmptyText /\ pParsed = EmptyDict

LinkerFresh ==
    /\ _umls_load_attempted = FALSE
    /\ self_umls = 0
    /\ _instance = 0
    /\ initialized = {}
    /\ initRuns = 0
    /\ tnew = [t \in Threads |-> 0]
    /\ tret = [t \in Threads |-> NoReturn]

LinkerOff == LinkerFresh /\ tpc = [t \in Threads |-> "off"]

DenseOff == dLog = <<>>

\* the locals of fetch_and_store while no run is under way
NoRun ==
    [pc |-> "off", runs |-> 0, max_studies |-> 0, max_retries |-> 0, page_token |-> 0,
     total_imported |-> 0, attempt |-> 0, requests |-> 0, data |-> 0, pos |-> 0,
     page_count |-> 0, tx |-> {}, outcome |-> "", last_commit |-> <<0, 0>>, commits |-> 0]

\* an empty relational store: no trial, the ingestion_state row (NULL, 0)
EmptyStore == [trials |-> {}, page_token |-> 0, processed_count |-> 0]

\* the locals of migrate while it does not run
NoMigration ==
    [pc |-> "off", batch |-> {}, todo |-> {}, tx |-> {}, processed_count |-> 0,
     batch_num |-> 0, migrated |-> {}]

JobsOff == ing = NoRun /\ idb = EmptyStore /\ mig = NoMigration /\ mdb = <<>>

\* the dict the caller passed as trial_metadata, as score_patient leaves it: the cached
\* parsed_criteria is the dict the override of step 2 writes into
MetaAfterCall(meta) ==
    IF meta.given /\ meta.parsed_criteria.keys # {}
       /\ ~OverrideRaises(meta.parsed_criteria, meta)
    THEN [meta EXCEPT !.parsed_criteria = Override(@, meta)]
    ELSE meta

InitScore ==
    /\ sPhase = "in"
    /\ sProfile \in ScoreProfiles
    /\ sText \in ScoreTexts
    /\ sMeta \in ScoreMetas
    /\ sCuis \in {[has |-> FALSE, val |-> {}], [has |-> TRUE, val |-> {"C1"}]}
    /\ sUmls \in BOOLEAN
    /\ sCuis.has => sUmls
    /\ sResult = NoResult
    /\ sProfileOut = sProfile
    /\ sMetaOut = sMeta
    /\ ParseOff /\ LinkerOff /\ DenseOff /\ JobsOff
    /\ pc = "off"
    /\ artifacts = "missing"
    /\ umlsLoadable = FALSE
    /\ vector_search = VsNew
    /\ feasibility_scorer = UmlsNew
    /\ norms = NormsNew
    /\ shared0 = <<VsNew, UmlsNew, NormsNew>>
    /\ Quiet

Score ==
    /\ sPhase = "in"
    /\ sPhase' = "out"
    /\ sResult' = score_patient(sProfile, sText, sMeta, sCuis, sUmls)
    /\ sProfileOut' = sProfile
    /\ sMetaOut' = MetaAfterCall(sMeta)
    /\ UNCHANGED <<sProfile, sText, sMeta, sCuis, sUmls>>
    /\ UNCHANGED <<procVars, reqVars, histVars>>
    /\ UNCHANGED unitVars

NextScore == Score

SpecScore == InitScore /\ [][NextScore]_vars

\* C1: every result score_patient returns has 0 <= score <= 100, and score = 0
\* whenever is_feasible is false
C1_ScoreRange ==
    (sPhase = "out" /\ ~sResult.raised) =>
        /\ 0 <= sResult.score
        /\ sResult.score <= 100
        /\ (~sResult.is_feasible => sResult.score = 0)


\* the points of the nine rules on the arguments of the call
RulePoints ==
    LET rules == Rules(sProfile, sText, sResult.parsed_criteria, sMeta, sCuis, sUmls)
    IN  SeqSum([i \in DOMAIN rules |-> rules[i].pts])

\* C1 witness: an infeasible result whose rules had added points, returned with score 0
C1_Witness ==
    /\ sPhase = "out"
    /\ ~sResult.raised
    /\ ~sResult.is_feasible
    /\ Len(sResult.reasons) > 1
    /\ RulePoints > 0
    /\ sResult.score = 0

\* the exclusions of the trial_data the call works on, and the patient's issues
CallExclusions ==
    LET td == IF sMeta.given /\ sMeta.parsed_criteria.keys # {}
              THEN sMeta.parsed_criteria ELSE Parse(sText)
    IN  IF "exclusions" \in td.keys THEN Range(td.exclusions) ELSE {}

CallIssues == Range(sProfile.conditions) \cup Range(sProfile.history)

\* C4: when a parsed exclusion is among the patient's conditions or history,
\* score_patient returns score 0, is_feasible false and exactly one reason, naming
\* such an exclusion; no later rule adds a reason or points
C4_HardExclusion ==
    (sPhase = "out" /\ (CallExclusions \cap CallIssues) # {}) =>
        /\ ~sResult.raised
        /\ sResult.score = 0
        /\ ~sResult.is_feasible
        /\ Len(sResult.reasons) = 1
        /\ sResult.reasons[1].kind = "Hard Exclusion"
        /\ sResult.reasons[1].what \in (CallExclusions \cap CallIssues)

\* C4 witness: the exclusion hit is not the first of the list, and the later rules
\* would have added points
C4_Witness ==
    /\ sPhase = "out"
    /\ sResult.reasons = <<Reason("Hard Exclusion", sMelanoma)>>
    /\ sText = RichText
    /\ sHIV \notin CallIssues
    /\ RulePoints > 0

-----------------------------------------------------------------------------
(* The search pipeline (api/main.py).  The lexical store, the dense index  *)
(* and the callers are the environment: sample documents, sample result    *)
(* lists and sample requests.                                              *)

MaxLex == 2

MaxDense == 2

\* _source of the sample documents of the lexical store
DocA ==
    [nct_id |-> "A", text |-> RichText, min_age_years |-> Some(18),
     max_age_years |-> None, sex |-> "ALL", conditions |-> <<sNSCLC>>,
     conditions_cuis |-> <<"C1">>, parsed_criteria |-> EmptyDict]

DocB ==
    [nct_id |-> "B", text |-> StrictText, min_age_years |-> None,
     max_age_years |-> None, sex |-> "", conditions |-> <<>>,
     conditions_cuis |-> <<>>, parsed_criteria |-> EmptyDict]

\* a document without any eligibility text
DocC ==
    [nct_id |-> "C", text |-> EmptyText, min_age_years |-> None,
     max_age_years |-> None, sex |-> "ALL", conditions |-> <<sNSCLC>>,
     conditions_cuis |-> <<>>, parsed_criteria |-> EmptyDict]

\* a document whose stored parsed_criteria lacks keys the scorer reads
DocD ==
    [nct_id |-> "D", text |-> PlainText, min_age_years |-> None,
     max_age_years |-> None, sex |-> "", conditions |-> <<>>,
     conditions_cuis |-> <<>>,
     parsed_criteria |-> [Parse(StrictText) EXCEPT !.keys = @ \ {"conditions", "biomarkers"}]]

Store == {DocA, DocB, DocC, DocD}

StoreIds == {d.nct_id : d \in Store}

Doc(id) == CHOOSE d \in Store : d.nct_id = id

\* the ids of the dense index's metadata: "E" is not in the lexical store
DenseIds == {"A", "B", "E"}

\* TrialHit(...) as both paths construct it
MkHit(src, score, raw) ==
    [nct_id |-> src.nct_id, score |-> score, retrieval_score |-> NoneRat,
     retrieval_score_raw |-> raw, feasibility_score |-> None,
     feasibility_reasons |-> <<>>, is_feasible |-> "null"]

\* relevance scores the lexical backend reports, best first
LexScores(n) ==
    {sc \in [1..n -> {1, 2}] : /\ n >= 1 => sc[1] = 2
                               /\ \A i \in 1..(n - 1) : sc[i] >= sc[i + 1]}

\* the hit lists a successful lexical query can return
LexicalOutcomes ==
    UNION {{[i \in DOMAIN ids |-> MkHit(Doc(ids[i]), RatInt(sc[i]), RatInt(sc[i]))] :
                sc \in LexScores(Len(ids))} : ids \in DistinctSeqs(StoreIds, MaxLex)}

\* similarities the dense index reports, best first, in tenths
DenseScores(n) ==
    {sc \in [1..n -> {7, 9}] : /\ n >= 1 => sc[1] = 9
                               /\ \A i \in 1..(n - 1) : sc[i] >= sc[i + 1]}

\* what VectorSearch.search returns on a ready index: (nct_id, score), best first
DenseOutcomes ==
    UNION {{[i \in DOMAIN ids |-> <<ids[i], Rat(sc[i], 10)>>] :
                sc \in DenseScores(Len(ids))} : ids \in DistinctSeqs(DenseIds, MaxDense)}

\* patient profiles of /rank
RankProfile1 ==
    [NoProfile EXCEPT !.age = Some(60), !.gender = "male",
                      !.conditions = <<sNsclcLong>>, !.biomarkers = <<sEGFR>>,
                      !.ecog = Some(1)]

RankProfile2 ==
    [NoProfile EXCEPT !.age = Some(60), !.gender = "Female",
                      !.conditions = <<sPregnancy, sMelanoma>>,
                      !.biomarkers = <<sHgb>>, !.history = <<sHIV>>]

RankProfile3 == [NoProfile EXCEPT !.age = Some(60), !.gender = "male"]

RankProfiles == {RankProfile1, RankProfile2, RankProfile3}

\* weights in tenths; 12 is out of range
Bm25Weights == {5, 12}

FeasibilityWeights == {6, 10, 12}

\* page and size of /search, valid and invalid
PageSizes == {<<2, 1>>, <<1, 2>>, <<0, 1>>, <<1, 0>>, <<1, 101>>}

SearchTexts == {<<>>, <<"text">>}

-----------------------------------------------------------------------------
(* Pure steps of the pipeline                                              *)

\* build_profile_query_text: the parts of the query text, <<>> is the empty string
build_profile_query_text(profile) ==
    (IF profile.conditions # <<>> THEN <<"conditions">> ELSE <<>>)
    \o (IF profile.ecog.has THEN <<"ecog">> ELSE <<>>)
    \o (IF profile.biomarkers # <<>> THEN <<"biomarkers">> ELSE <<>>)
    \o (IF profile.history # <<>> THEN <<"history">> ELSE <<>>)
    \o (IF profile.prior_lines.has THEN <<"prior_lines">> ELSE <<>>)
    \o (IF profile.days_since_last_treatment.has THEN <<"days">> ELSE <<>>)

\* the constraints of the Query(...) parameters of /search (weights in tenths)
QueryRejects(page, size, bm25_weight) ==
    \/ page < 1
    \/ size < 1 \/ size > 100
    \/ bm25_weight < 0 \/ bm25_weight > 10

\* the checks at the head of _search_trials_internal: the detail of the 400, "" if none
ValidationError(r) ==
    IF r.page < 1 THEN "page must be >= 1"
    ELSE IF r.size < 1 \/ r.size > 100 THEN "size must be between 1 and 100"
    ELSE IF ~(0 <= r.bm25_weight /\ r.bm25_weight <= 10) THEN "bm25_weight must be in [0, 1]"
    ELSE IF r.has_profile /\ ~(0 <= r.feasibility_weight /\ r.feasibility_weight <= 10)
    THEN "feasibility_weight must be in [0, 1]"
    ELSE ""

\* rank_trials: the profile after the normalisation of conditions and biomarkers
RankNormalize(profile) ==
    LET normalized_conditions ==
            IF profile.conditions # <<>>
            THEN normalize_list("condition", profile.conditions, <<>>) ELSE <<>>
        normalized_biomarkers ==
            IF profile.biomarkers # <<>>
            THEN normalize_list("biomarker", profile.biomarkers, <<>>) ELSE <<>>
    IN  [profile EXCEPT
            !.conditions = IF normalized_conditions # <<>> THEN normalized_conditions ELSE @,
            !.biomarkers = IF normalized_biomarkers # <<>> THEN normalized_biomarkers ELSE @]

\* get_condition_normalizer / get_biomarker_normalizer as rank_trials calls them
RankSingletons(n, profile) ==
    [_normalizer |-> n._normalizer \/ profile.conditions # <<>>,
     _b_normalizer |-> n._b_normalizer \/ profile.biomarkers # <<>>]

\* the lexical query raised, taken for an empty result
OnLexicalErrorAsEmpty(detail) == [pc |-> "route", resp |-> NoResp]

\* except Exception of the lexical query: HTTPException(500)
OnLexicalError(detail) == [pc |-> "done", resp |-> [NoResp EXCEPT !.status = 500]]

\* the fallback condition without the test on the lexical hits
FallbackGuardAnyHits(hs, q, ready) == q # <<>> /\ ready

\* `if not hits and q and vector_search.ready`
FallbackGuard(hs, q, ready) == hs = <<>> /\ q # <<>> /\ ready

\* `if q and vector_search.ready and hits`
FusionGuard(hs, q, ready) == q # <<>> /\ ready /\ hs # <<>>

\* the fusion: every lexical hit re-scored with its RRF score (k = 60), before the sort
Rescore(hs, dense_results) ==
    LET bm25_ranked_ids == [i \in DOMAIN hs |-> hs[i].nct_id]
        dense_ranked_ids == [i \in DOMAIN dense_results |-> dense_results[i][1]]
        rrf_scores == compute_rrf(<<bm25_ranked_ids, dense_ranked_ids>>, 60)
    IN  [i \in DOMAIN hs |-> [hs[i] EXCEPT !.score = rrf_scores[hs[i].nct_id]]]

\* steps 3 and 4 of dense_only_fallback: the hits built from the fetched documents
FallbackHits(dense_results, fetched) ==
    LET scores == [i \in DOMAIN dense_results |-> dense_results[i][2]]
        norm_map == _normalize_scores(scores)
        dense_by_id(n) ==
            LET at == {i \in DOMAIN dense_results : dense_results[i][1] = n}
            IN  IF at = {} THEN RatInt(0) ELSE dense_results[CHOOSE i \in at : TRUE][2]
    IN  [i \in DOMAIN fetched |->
            MkHit(Doc(fetched[i]),
                  IF i \in DOMAIN norm_map THEN norm_map[i] ELSE RatInt(0),
                  dense_by_id(fetched[i]))]

\* the metadata dict _apply_feasibility_rerank hands to the scorer
MetaOf(src) ==
    [given |-> TRUE, min_age_years |-> src.min_age_years,
     max_age_years |-> src.max_age_years, sex |-> src.sex,
     conditions |-> src.conditions, conditions_cuis |-> src.conditions_cuis,
     parsed_criteria |-> src.parsed_criteria]

\* a blend with the two weights exchanged
BlendSwapped(feasibility_weight, retrieval_norm, feasibility_norm) ==
    RatAdd(RatMul(Rat(feasibility_weight, 10), retrieval_norm),
           RatMul(Rat(10 - feasibility_weight, 10), feasibility_norm))

\* (1 - feasibility_weight) * retrieval_norm + feasibility_weight * feasibility_norm
Blend(feasibility_weight, retrieval_norm, feasibility_norm) ==
    RatAdd(RatMul(Rat(10 - feasibility_weight, 10), retrieval_norm),
           RatMul(Rat(feasibility_weight, 10), feasibility_norm))

\* an exception of the scorer that is not caught: it ends the request
ScoringExceptionPropagates(hit, exc) ==
    [caught |-> FALSE, hit |-> hit]

\* except Exception around score_patient
OnScoringException(hit, exc) ==
    [caught |-> TRUE,
     hit |-> [hit EXCEPT !.feasibility_score = None,
                         !.feasibility_reasons =
                             <<Reason("Feasibility scoring error", exc.reasons[1].what)>>,
                         !.is_feasible = "null"]]

\* the body of the loop without the branch for a missing criteria text
ScoredHitAlwaysScores(h0, src, result) ==
    IF result.raised THEN OnScoringException(h0, result)
    ELSE [caught |-> TRUE,
          hit |-> [h0 EXCEPT
             !.feasibility_score = Some(result.score),
             !.feasibility_reasons = result.reasons,
             !.is_feasible = IF result.is_feasible THEN "true" ELSE "false"]]

\* the calls of score_patient one turn of the loop makes: none without criteria text
ScorerCalls(src) == IF src.text.present THEN 1 ELSE 0

\* the body of the try block and its handlers: the hit with what the scorer said
ScoredHit(h0, src, result) ==
    IF ~src.text.present
    THEN [caught |-> TRUE,
          hit |-> [h0 EXCEPT
             !.feasibility_score = None,
             !.feasibility_reasons =
                 <<Reason("No eligibility criteria available", <<>>)>>,
             !.is_feasible = "null"]]
    ELSE IF result.raised THEN OnScoringException(h0, result)
    ELSE [caught |-> TRUE,
          hit |-> [h0 EXCEPT
             !.feasibility_score = Some(result.score),
             !.feasibility_reasons = result.reasons,
             !.is_feasible = IF result.is_feasible THEN "true" ELSE "false"]]

\* feasibility_norm and the blended score of the hit
BlendedHit(out, feasibility_weight, retrieval_norm) ==
    [caught |-> out.caught,
     hit |-> [out.hit EXCEPT
                !.score = Blend(feasibility_weight, retrieval_norm,
                                IF out.hit.feasibility_score.has
                                THEN Rat(out.hit.feasibility_score.val, 100)
                                ELSE RatInt(0))]]

\* one turn of the loop of _apply_feasibility_rerank
EvalHit(hit, src, retrieval_norm, profile, feasibility_weight, patient_cuis, linker) ==
    BlendedHit(
        ScoredHit([hit EXCEPT !.retrieval_score = Some(retrieval_norm)], src,
                  score_patient(profile, src.text, MetaOf(src), patient_cuis, linker)),
        feasibility_weight, retrieval_norm)

\* the hit list left as it is after the sort
KeepAll(hs) == hs

\* hits[:] = [h for h in hits if h.is_feasible is not False]
KeepFeasible(hs) == SelectSeq(hs, LAMBDA h : h.is_feasible # "false")

\* hits[start:end] with start = (page - 1) * size, end = start + size
PageOf(hs, page, size) ==
    LET start == (page - 1) * size
        end == Min2(start + size, Len(hs))
    IN  IF start >= Len(hs) THEN <<>> ELSE SubSeq(hs, start + 1, end)

\* the SearchResponse of _search_trials_internal
MainResponse(r, hs, total) ==
    LET candidate_total == Len(hs)
    IN  [status |-> 200,
         total |-> IF r.use_candidate_total THEN candidate_total ELSE total,
         page |-> r.page, size |-> r.size,
         hits |-> PageOf(hs, r.page, r.size),
         candidate_total |-> IF r.use_candidate_total THEN Some(candidate_total) ELSE None,
         truncated |-> r.use_candidate_total /\ total > candidate_total]

\* the SearchResponse of dense_only_fallback
FallbackResponse(r, hs) ==
    LET candidate_total == Len(hs)
    IN  [status |-> 200, total |-> candidate_total,
         page |-> r.page, size |-> r.size,
         hits |-> PageOf(hs, r.page, r.size),
         candidate_total |-> IF r.use_candidate_total THEN Some(candidate_total) ELSE None,
         truncated |-> FALSE]

-----------------------------------------------------------------------------
(* The process serving requests, one at a time                             *)

Shared == <<vector_search, feasibility_scorer, norms>>

Init ==
    /\ sPhase = "off"
    /\ sProfile = NoProfile
    /\ sText = EmptyText
    /\ sMeta = NoMeta
    /\ sCuis = [has |-> FALSE, val |-> {}]
    /\ sUmls = FALSE
    /\ sResult = NoResult
    /\ sProfileOut = NoProfile
    /\ sMetaOut = NoMeta
    /\ ParseOff /\ LinkerOff /\ DenseOff /\ JobsOff
    /\ pc = "boot"
    /\ artifacts \in {"missing", "present"}
    /\ umlsLoadable \in BOOLEAN
    /\ vector_search = VsNew
    /\ feasibility_scorer = UmlsNew
    /\ norms = NormsNew
    /\ shared0 = <<VsNew, UmlsNew, NormsNew>>
    /\ Quiet

\* startup_event: the linker and the dense index are loaded before any request
Startup ==
    /\ pc = "boot"
    /\ feasibility_scorer' = GetUmls(feasibility_scorer, umlsLoadable)
    /\ vector_search' = VsLoad(vector_search, artifacts)
    /\ shared0' = <<vector_search', feasibility_scorer', norms>>
    /\ pc' = "idle"
    /\ UNCHANGED <<scoreVars, artifacts, umlsLoadable, norms>>
    /\ UNCHANGED <<req, hits, total_value, path, idx, pcuis, rvals, denseRanked,
                   denseById, resp>>
    /\ UNCHANGED <<lexStatus, lexHits, calls, took, preSort, evaluated, cancelled,
                   afterCancel>>
    /\ UNCHANGED unitVars

\* GET /search up to the lexical query
SearchRequest ==
    /\ pc = "idle"
    /\ \E q \in SearchTexts, ps \in PageSizes, w \in Bm25Weights :
         LET r == [NoReq EXCEPT !.endpoint = "search", !.q = q, !.page = ps[1],
                                !.size = ps[2], !.bm25_weight = w]
         IN  /\ req' = r
             /\ IF QueryRejects(r.page, r.size, r.bm25_weight)
                THEN /\ resp' = [NoResp EXCEPT !.status = 422]
                     /\ pc' = "done"
                ELSE IF ValidationError(r) # ""
                THEN /\ resp' = [NoResp EXCEPT !.status = 400]
                     /\ pc' = "done"
                ELSE /\ resp' = resp
                     /\ pc' = "lexical"
    /\ shared0' = Shared
    /\ UNCHANGED <<scoreVars, procVars>>
    /\ UNCHANGED <<hits, total_value, path, idx, pcuis, rvals, denseRanked, denseById>>
    /\ UNCHANGED <<lexStatus, lexHits, calls, took, preSort, evaluated, cancelled,
                   afterCancel>>
    /\ UNCHANGED unitVars

\* POST /rank up to the lexical query
RankRequest ==
    /\ pc = "idle"
    /\ \E profile \in RankProfiles, w \in Bm25Weights, fw \in FeasibilityWeights :
         LET r == [NoReq EXCEPT !.endpoint = "rank",
                                !.q = build_profile_query_text(profile),
                                !.page = 1, !.size = 20, !.bm25_weight = w,
                                !.has_profile = TRUE,
                                !.patient_profile = RankNormalize(profile),
                                !.body_profile = profile,
                                !.feasibility_weight = fw,
                                !.use_candidate_total = TRUE]
         IN  /\ norms' = RankSingletons(norms, profile)
             /\ req' = r
             /\ IF ValidationError(r) # ""
                THEN /\ resp' = [NoResp EXCEPT !.status = 400]
                     /\ pc' = "done"
                ELSE /\ resp' = resp
                     /\ pc' = "lexical"
    /\ shared0' = Shared
    /\ UNCHANGED <<scoreVars, artifacts, umlsLoadable, vector_search, feasibility_scorer>>
    /\ UNCHANGED <<hits, total_value, path, idx, pcuis, rvals, denseRanked, denseById>>
    /\ UNCHANGED <<lexStatus, lexHits, calls, took, preSort, evaluated, cancelled,
                   afterCancel>>
    /\ UNCHANGED unitVars

\* client.search of _search_trials_internal returns; the backend reports more matches
\* than it returns only when the candidate pool (MaxLex here) is full
LexicalOk ==
    /\ pc = "lexical"
    /\ \E hs \in LexicalOutcomes, more \in {0, 1} :
         /\ more = 1 => Len(hs) = MaxLex
         /\ hits' = hs
         /\ lexHits' = hs
         /\ total_value' = Len(hs) + more
    /\ lexStatus' = "ok"
    /\ calls' = [calls EXCEPT !.lexical = @ + 1]
    /\ pc' = "route"
    /\ UNCHANGED <<scoreVars, procVars>>
    /\ UNCHANGED <<req, path, idx, pcuis, rvals, denseRanked, denseById, resp>>
    /\ UNCHANGED <<took, preSort, evaluated, shared0, cancelled, afterCancel>>
    /\ UNCHANGED unitVars

\* client.search of _search_trials_internal raises
LexicalFail ==
    /\ pc = "lexical"
    /\ lexStatus' = "failed"
    /\ calls' = [calls EXCEPT !.lexical = @ + 1]
    /\ pc' = OnLexicalError("error").pc
    /\ resp' = OnLexicalError("error").resp
    /\ UNCHANGED <<scoreVars, procVars>>
    /\ UNCHANGED <<req, hits, total_value, path, idx, pcuis, rvals, denseRanked, denseById>>
    /\ UNCHANGED <<lexHits, took, preSort, evaluated, shared0, cancelled, afterCancel>>
    /\ UNCHANGED unitVars

\* vector_search.ready: the load on first use, then the test
Ready == VsReady(VsLoad(vector_search, artifacts))

\* where the pipeline goes once the candidates are retrieved
AfterRetrieval == IF req.has_profile THEN "rerank" ELSE "respond"

\* the dense-only fallback is entered: the dense search of dense_only_fallback
EnterFallback ==
    /\ pc = "route"
    /\ FallbackGuard(hits, req.q, Ready)
    /\ vector_search' = VsLoad(vector_search, artifacts)
    /\ took' = [took EXCEPT !.fallback = TRUE]
    /\ path' = "fallback"
    /\ calls' = [calls EXCEPT !.dense = @ + 1]
    /\ \E dense_results \in DenseOutcomes :
         /\ denseById' = dense_results
         /\ IF dense_results = <<>>
            THEN /\ resp' = [NoResp EXCEPT !.status = 200, !.page = req.page,
                                           !.size = req.size]
                 /\ pc' = "done"
            ELSE /\ resp' = resp
                 /\ pc' = "fetch"
    /\ UNCHANGED <<scoreVars, artifacts, umlsLoadable, feasibility_scorer, norms>>
    /\ UNCHANGED <<req, hits, total_value, idx, pcuis, rvals, denseRanked>>
    /\ UNCHANGED <<lexStatus, lexHits, preSort, evaluated, shared0, cancelled, afterCancel>>
    /\ UNCHANGED unitVars

\* the documents of the dense ids that the store holds, in any order
FetchOrders ==
    LET found == {denseById[i][1] : i \in DOMAIN denseById} \cap StoreIds
    IN  {o \in DistinctSeqs(found, Cardinality(found)) : Len(o) = Cardinality(found)}

\* the fetch by id of dense_only_fallback returns: hits built, sorted when no profile
FetchOk ==
    /\ pc = "fetch"
    /\ calls' = [calls EXCEPT !.lexical = @ + 1]
    /\ \E fetched \in FetchOrders :
         LET built == FallbackHits(denseById, fetched)
         IN  IF req.has_profile
             THEN /\ hits' = built
                  /\ preSort' = preSort
             ELSE /\ hits' = SortByScoreDesc(built)
                  /\ preSort' = built
    /\ pc' = AfterRetrieval
    /\ UNCHANGED <<scoreVars, procVars>>
    /\ UNCHANGED <<req, total_value, path, idx, pcuis, rvals, denseRanked, denseById, resp>>
    /\ UNCHANGED <<lexStatus, lexHits, took, evaluated, shared0, cancelled, afterCancel>>
    /\ UNCHANGED unitVars

\* the fetch by id raises: nothing catches it, the framework answers 500
FetchFail ==
    /\ pc = "fetch"
    /\ calls' = [calls EXCEPT !.lexical = @ + 1]
    /\ resp' = [NoResp EXCEPT !.status = 500]
    /\ pc' = "done"
    /\ UNCHANGED <<scoreVars, procVars>>
    /\ UNCHANGED <<req, hits, total_value, path, idx, pcuis, rvals, denseRanked, denseById>>
    /\ UNCHANGED <<lexStatus, lexHits, took, preSort, evaluated, shared0, cancelled,
                   afterCancel>>
    /\ UNCHANGED unitVars

\* dense search and reciprocal rank fusion over the lexical hits
Fusion ==
    /\ pc = "route"
    /\ ~FallbackGuard(hits, req.q, Ready)
    /\ FusionGuard(hits, req.q, Ready)
    /\ vector_search' = VsLoad(vector_search, artifacts)
    /\ took' = [took EXCEPT !.fusion = TRUE]
    /\ calls' = [calls EXCEPT !.dense = @ + 1]
    /\ \E dense_results \in DenseOutcomes :
         /\ denseRanked' = [i \in DOMAIN dense_results |-> dense_results[i][1]]
         /\ preSort' = Rescore(hits, dense_results)
         /\ hits' = SortByScoreDesc(Rescore(hits, dense_results))
    /\ pc' = AfterRetrieval
    /\ UNCHANGED <<scoreVars, artifacts, umlsLoadable, feasibility_scorer, norms>>
    /\ UNCHANGED <<req, total_value, path, idx, pcuis, rvals, denseById, resp>>
    /\ UNCHANGED <<lexStatus, lexHits, evaluated, shared0, cancelled, afterCancel>>
    /\ UNCHANGED unitVars

\* neither fallback nor fusion: the lexical hits go on as they are
LexicalOnly ==
    /\ pc = "route"
    /\ ~FallbackGuard(hits, req.q, Ready)
    /\ ~FusionGuard(hits, req.q, Ready)
    /\ vector_search' = IF req.q # <<>> THEN VsLoad(vector_search, artifacts)
                        ELSE vector_search
    /\ pc' = AfterRetrieval
    /\ UNCHANGED <<scoreVars, artifacts, umlsLoadable, feasibility_scorer, norms>>
    /\ UNCHANGED <<req, hits, total_value, path, idx, pcuis, rvals, denseRanked,
                   denseById, resp>>
    /\ UNCHANGED <<histVars>>
    /\ UNCHANGED unitVars

\* _apply_feasibility_rerank up to its loop
RerankStart ==
    /\ pc = "rerank"
    /\ IF hits = <<>>
       THEN /\ pc' = "respond"
            /\ UNCHANGED <<resp, rvals, pcuis, feasibility_scorer, idx>>
       ELSE IF ~(0 <= req.feasibility_weight /\ req.feasibility_weight <= 10)
       THEN /\ resp' = [NoResp EXCEPT !.status = 400]
            /\ pc' = "done"
            /\ UNCHANGED <<rvals, pcuis, feasibility_scorer, idx>>
       ELSE /\ rvals' = [i \in DOMAIN hits |-> hits[i].score]
            /\ IF req.patient_profile.conditions # <<>>
               THEN /\ feasibility_scorer' = GetUmls(feasibility_scorer, umlsLoadable)
                    /\ pcuis' = [has |-> TRUE,
                                 val |-> extract_cuis(feasibility_scorer',
                                                      req.patient_profile.conditions)]
               ELSE /\ feasibility_scorer' = feasibility_scorer
                    /\ pcuis' = [has |-> FALSE, val |-> {}]
            /\ idx' = 1
            /\ pc' = "eval"
            /\ resp' = resp
    /\ UNCHANGED <<scoreVars, artifacts, umlsLoadable, vector_search, norms>>
    /\ UNCHANGED <<req, hits, total_value, path, denseRanked, denseById>>
    /\ UNCHANGED <<histVars>>
    /\ UNCHANGED unitVars

\* _norm over the retrieval_raw_values of the candidate list
RetrievalNorm(i) == _norm(rvals[i], RatMinSeq(rvals), RatMaxSeq(rvals))

\* one candidate of the loop of _apply_feasibility_rerank
EvalCandidate ==
    /\ pc = "eval"
    /\ idx <= Len(hits)
    /\ \E out \in {EvalHit(hits[idx], Doc(hits[idx].nct_id), RetrievalNorm(idx),
                            req.patient_profile, req.feasibility_weight, pcuis,
                            feasibility_scorer.umls)} :
           IF out.caught
           THEN /\ hits' = [hits EXCEPT ![idx] = out.hit]
                /\ idx' = idx + 1
                /\ pc' = pc
                /\ resp' = resp
           ELSE /\ resp' = [NoResp EXCEPT !.status = 500]
                /\ pc' = "done"
                /\ UNCHANGED <<hits, idx>>
    /\ calls' = [calls EXCEPT !.feasibility = @ + 1,
                              !.scorer = @ + ScorerCalls(Doc(hits[idx].nct_id))]
    /\ afterCancel' = IF cancelled THEN afterCancel + 1 ELSE afterCancel
    /\ UNCHANGED <<scoreVars, procVars>>
    /\ UNCHANGED <<req, total_value, path, pcuis, rvals, denseRanked, denseById>>
    /\ UNCHANGED <<lexStatus, lexHits, took, preSort, evaluated, shared0, cancelled>>
    /\ UNCHANGED unitVars

\* after the loop: the sort by blended score and the removal of the infeasible hits
RerankFinish ==
    /\ pc = "eval"
    /\ idx > Len(hits)
    /\ evaluated' = hits
    /\ preSort' = hits
    /\ hits' = KeepFeasible(SortByScoreDesc(hits))
    /\ pc' = "respond"
    /\ UNCHANGED <<scoreVars, procVars>>
    /\ UNCHANGED <<req, total_value, path, idx, pcuis, rvals, denseRanked, denseById, resp>>
    /\ UNCHANGED <<lexStatus, lexHits, calls, took, shared0, cancelled, afterCancel>>
    /\ UNCHANGED unitVars

\* pagination and the SearchResponse
Respond ==
    /\ pc = "respond"
    /\ resp' = IF path = "fallback" THEN FallbackResponse(req, hits)
               ELSE MainResponse(req, hits, total_value)
    /\ pc' = "done"
    /\ UNCHANGED <<scoreVars, procVars>>
    /\ UNCHANGED <<req, hits, total_value, path, idx, pcuis, rvals, denseRanked, denseById>>
    /\ UNCHANGED <<histVars>>
    /\ UNCHANGED unitVars

\* the response is out; the process waits for the next request
Finish ==
    /\ pc = "done"
    /\ pc' = "idle"
    /\ shared0' = Shared
    /\ req' = NoReq
    /\ hits' = <<>>
    /\ total_value' = 0
    /\ path' = "main"
    /\ idx' = 0
    /\ pcuis' = [has |-> FALSE, val |-> {}]
    /\ rvals' = <<>>
    /\ denseRanked' = <<>>
    /\ denseById' = <<>>
    /\ resp' = NoResp
    /\ lexStatus' = "none"
    /\ lexHits' = <<>>
    /\ calls' = NoCalls
    /\ took' = NoTook
    /\ preSort' = <<>>
    /\ evaluated' = <<>>
    /\ cancelled' = FALSE
    /\ afterCancel' = 0
    /\ UNCHANGED <<scoreVars, procVars>>
    /\ UNCHANGED unitVars

Next ==
    \/ Startup
    \/ SearchRequest
    \/ RankRequest
    \/ LexicalOk
    \/ LexicalFail
    \/ EnterFallback
    \/ FetchOk
    \/ FetchFail
    \/ Fusion
    \/ LexicalOnly
    \/ RerankStart
    \/ EvalCandidate
    \/ RerankFinish
    \/ Respond
    \/ Finish

Spec == Init /\ [][Next]_vars

\* the caller sets the cancellation signal while its request is being served
Cancel ==
    /\ pc \in {"lexical", "route", "fetch", "rerank", "eval", "respond"}
    /\ ~cancelled
    /\ cancelled' = TRUE
    /\ UNCHANGED <<scoreVars, procVars, reqVars>>
    /\ UNCHANGED <<lexStatus, lexHits, calls, took, preSort, evaluated, shared0,
                   afterCancel>>
    /\ UNCHANGED unitVars

NextCancel == Next \/ Cancel

\* a process whose dense index and linker load
InitCancel == Init /\ artifacts = "present" /\ umlsLoadable

SpecCancel == InitCancel /\ [][NextCancel]_vars

-----------------------------------------------------------------------------
(* Properties of the pipeline                                              *)

\* the request has its response
Answered == pc = "done" /\ resp.status = 200

\* C2: for every rank request with a patient profile, on the hybrid path and on the
\* dense-only fallback path, no hit of the returned list (and none of the candidate
\* list it is cut from) has is_feasible = false
C2_NoInfeasibleHit ==
    /\ \A i \in DOMAIN resp.hits : resp.hits[i].is_feasible # "false"
    /\ (req.has_profile /\ pc \in {"respond", "done"}) =>
           \A i \in DOMAIN hits : hits[i].is_feasible # "false"

\* C2 witness: on the fallback path an evaluated candidate was infeasible, and the
\* response still carries hits
C2_Witness ==
    /\ Answered
    /\ path = "fallback"
    /\ \E i \in DOMAIN evaluated : evaluated[i].is_feasible = "false"
    /\ resp.hits # <<>>

\* the candidate list before the final sort; the lexical order where nothing was sorted
BeforeFinalSort == IF preSort # <<>> THEN preSort ELSE lexHits

PosIn(list, id) == CHOOSE i \in DOMAIN list : list[i].nct_id = id

\* C3: the returned hit list is in non-increasing order of final score, and two hits
\* of equal final score stand in the relative order they had before the final sort
C3_SortedStable ==
    Answered =>
        \A i, j \in DOMAIN resp.hits :
            i < j =>
                /\ RatLe(resp.hits[j].score, resp.hits[i].score)
                /\ resp.hits[i].score = resp.hits[j].score =>
                       PosIn(BeforeFinalSort, resp.hits[i].nct_id)
                           < PosIn(BeforeFinalSort, resp.hits[j].nct_id)

\* C3 witness: a response whose list was sorted and carries two hits of equal final
\* score (the fusion gives the same score to two hits ranked 1, 2 and 2, 1)
C3_Witness ==
    /\ Answered
    /\ took.fusion
    /\ preSort # <<>>
    /\ \E i \in DOMAIN resp.hits :
         i + 1 \in DOMAIN resp.hits /\ resp.hits[i].score = resp.hits[i + 1].score

\* what score_patient does on candidate i of the evaluated list
ScoredAlone(i) ==
    LET src == Doc(evaluated[i].nct_id)
    IN  score_patient(req.patient_profile, src.text, MetaOf(src), pcuis,
                      feasibility_scorer.umls)

ScoringFails(i) == Doc(evaluated[i].nct_id).text.present /\ ScoredAlone(i).raised

\* C5: a candidate whose scoring raises is kept with feasibility_score null,
\* is_feasible undetermined and a reason carrying the exception's message; every other
\* candidate has the feasibility_score, is_feasible and reasons of its own scoring;
\* and a request that evaluated candidates returns a normal response
C5_ErrorIsolation ==
    /\ (pc = "done" /\ calls.feasibility > 0) => resp.status = 200
    /\ \A i \in DOMAIN evaluated :
         IF ScoringFails(i)
         THEN /\ evaluated[i].feasibility_score = None
              /\ evaluated[i].is_feasible = "null"
              /\ evaluated[i].feasibility_reasons =
                     <<Reason("Feasibility scoring error", ScoredAlone(i).reasons[1].what)>>
              /\ \E k \in DOMAIN hits : hits[k].nct_id = evaluated[i].nct_id
         ELSE Doc(evaluated[i].nct_id).text.present =>
              /\ evaluated[i].feasibility_score = Some(ScoredAlone(i).score)
              /\ evaluated[i].feasibility_reasons = ScoredAlone(i).reasons
              /\ evaluated[i].is_feasible =
                     (IF ScoredAlone(i).is_feasible THEN "true" ELSE "false")

\* C5 witness: one candidate's scoring raised, another one was scored feasible, and
\* the response is a normal one that carries both
C5_Witness ==
    /\ Answered
    /\ Len(resp.hits) = 2
    /\ \E i, j \in DOMAIN evaluated :
         /\ ScoringFails(i)
         /\ evaluated[j].is_feasible = "true"

\* C6: when the lexical query raises, the request ends with a backend error and no
\* hits, whether or not the dense index is ready; no dense search, no dense-only
\* fallback, no fusion and no feasibility evaluation is performed for it
C6_LexicalFailureFatal ==
    lexStatus = "failed" =>
        /\ pc = "done"
        /\ resp.status = 500
        /\ resp.hits = <<>>
        /\ calls.dense = 0
        /\ calls.feasibility = 0
        /\ ~took.fallback
        /\ ~took.fusion

\* C6 witness: the lexical query failed on a request with a query text and a profile
\* while the dense index was ready
C6_Witness ==
    /\ lexStatus = "failed"
    /\ Ready
    /\ req.q # <<>>
    /\ req.has_profile

\* C7: the dense-only fallback is entered only in a request whose lexical query
\* succeeded with zero hits, with the dense index ready and a non-empty query text
C7_FallbackOnlyOnEmptyLexical ==
    took.fallback =>
        /\ lexStatus = "ok"
        /\ lexHits = <<>>
        /\ Ready
        /\ req.q # <<>>

\* C7 witness: a request answered through the fallback, with hits
C7_Witness ==
    /\ took.fallback
    /\ Answered
    /\ resp.hits # <<>>

\* the patient CUIs _apply_feasibility_rerank pre-computes for the request
RequestCuis ==
    IF req.patient_profile.conditions # <<>>
    THEN [has |-> TRUE, val |-> extract_cuis(feasibility_scorer, req.patient_profile.conditions)]
    ELSE [has |-> FALSE, val |-> {}]

\* a pipeline without a dense component: the lexical hits, re-ranked when there is a
\* profile, then paginated
LexicalOnlyCandidates ==
    IF req.has_profile /\ lexHits # <<>>
    THEN LET raw == [i \in DOMAIN lexHits |-> lexHits[i].score]
             scored == [i \in DOMAIN lexHits |->
                           EvalHit(lexHits[i], Doc(lexHits[i].nct_id),
                                   _norm(raw[i], RatMinSeq(raw), RatMaxSeq(raw)),
                                   req.patient_profile, req.feasibility_weight,
                                   RequestCuis, feasibility_scorer.umls).hit]
         IN  KeepFeasible(SortByScoreDesc(scored))
    ELSE lexHits

\* C8: while the dense artifacts are missing no dense search, fusion or fallback
\* happens, the candidates keep their raw lexical scores in lexical order until the
\* re-ranking, a request whose lexical query succeeded is answered normally, and its
\* response is the one of the lexical-only pipeline
C8_NotReadyIsLexicalOnly ==
    artifacts = "missing" =>
        /\ calls.dense = 0
        /\ ~took.fusion
        /\ ~took.fallback
        /\ pc \in {"route", "rerank"} => hits = lexHits
        /\ (pc = "done" /\ lexStatus = "ok") =>
               resp = MainResponse(req, LexicalOnlyCandidates, total_value)

\* C8 witness: with the artifacts missing, a request with a query text and a profile
\* is answered with hits
C8_Witness ==
    /\ artifacts = "missing"
    /\ Answered
    /\ req.q # <<>>
    /\ req.has_profile
    /\ Len(resp.hits) >= 2

\* the request was rejected as invalid
Rejected == pc = "done" /\ resp.status \in {400, 422}

\* C9: a request with an invalid page, size or weight is rejected with a 4xx before
\* any lexical query, dense search or feasibility evaluation, and no state is changed
C9_ValidationNoSideEffects ==
    Rejected =>
        /\ calls = NoCalls
        /\ Shared = shared0

\* the part of C9 that the code keeps: nothing is queried or evaluated for a rejected
\* request, and every invalid request is rejected
C9_RejectedBeforeAnyWork ==
    /\ Rejected => calls = NoCalls /\ hits = <<>>
    /\ (pc # "idle" /\ pc # "boot" /\ ValidationError(req) # "") => Rejected

\* C10: once the cancellation signal is set no further feasibility evaluation of the
\* request starts, and the request ends with an error instead of a normal response,
\* with no hits
C10_Cancellation ==
    cancelled =>
        /\ afterCancel = 0
        /\ pc = "done" => (resp.status # 200 /\ resp.hits = <<>>)

-----------------------------------------------------------------------------
(* The units exercised on their own: what is at rest meanwhile             *)

ScoreOff ==
    /\ sPhase = "off"
    /\ sProfile = NoProfile
    /\ sText = EmptyText
    /\ sMeta = NoMeta
    /\ sCuis = [has |-> FALSE, val |-> {}]
    /\ sUmls = FALSE
    /\ sResult = NoResult
    /\ sProfileOut = NoProfile
    /\ sMetaOut = NoMeta

PipelineOff ==
    /\ pc = "off"
    /\ vector_search = VsNew
    /\ feasibility_scorer = UmlsNew
    /\ norms = NormsNew
    /\ shared0 = <<VsNew, UmlsNew, NormsNew>>
    /\ Quiet

-----------------------------------------------------------------------------
(* Request threads in FeasibilityScorer._get_umls and UMLSLinker.__new__   *)
(* (the endpoints are plain functions: the server runs them on a pool of   *)
(* threads, which may be switched between any two statements).  A linker   *)
(* object is named by the thread that created it.                          *)

\* the linker object the startup hook creates
StartupLinker == NumThreads + 1

\* the process after startup_event has called _get_umls, before any request
LinkerPreloaded ==
    /\ _umls_load_attempted = TRUE
    /\ self_umls = IF umlsLoadable THEN StartupLinker ELSE 0
    /\ _instance = StartupLinker
    /\ initialized = IF umlsLoadable THEN {StartupLinker} ELSE {}
    /\ initRuns = 1
    /\ tnew = [t \in Threads |-> 0]
    /\ tret = [t \in Threads |-> NoReturn]

\* the request threads start in a process whose startup hook has run, or in one where
\* it has not (the application served without its startup events)
InitLinker ==
    /\ ScoreOff /\ PipelineOff /\ ParseOff /\ DenseOff /\ JobsOff
    /\ artifacts = "missing"
    /\ umlsLoadable \in BOOLEAN
    /\ LinkerFresh \/ LinkerPreloaded
    /\ tpc = [t \in Threads |-> "call"]

\* some thread is between the entry of _initialize and its return
LoadRunning == \E u \in Threads : tpc[u] = "loading"

\* what a step of a thread in _get_umls leaves alone
LinkerFrame ==
    UNCHANGED <<scoreVars, procVars, reqVars, histVars, parseVars, dLog, jobVars>>

\* if not self._umls_load_attempted:
GetUmlsTest(t) ==
    /\ tpc[t] = "call"
    /\ tpc' = [tpc EXCEPT ![t] = IF _umls_load_attempted THEN "ret" ELSE "mark"]
    /\ UNCHANGED <<_umls_load_attempted, self_umls, _instance, initialized, initRuns,
                   tnew, tret>>
    /\ LinkerFrame

\* self._umls_load_attempted = True
GetUmlsMark(t) ==
    /\ tpc[t] = "mark"
    /\ _umls_load_attempted' = TRUE
    /\ tpc' = [tpc EXCEPT ![t] = "new"]
    /\ UNCHANGED <<self_umls, _instance, initialized, initRuns, tnew, tret>>
    /\ LinkerFrame

\* UMLSLinker.__new__: if cls._instance is None
NewTest(t) ==
    /\ tpc[t] = "new"
    /\ tpc' = [tpc EXCEPT ![t] = IF _instance = 0 THEN "create" ELSE "newret"]
    /\ UNCHANGED <<_umls_load_attempted, self_umls, _instance, initialized, initRuns,
                   tnew, tret>>
    /\ LinkerFrame

\* cls._instance = super().__new__(cls)
NewCreate(t) ==
    /\ tpc[t] = "create"
    /\ _instance' = t
    /\ tpc' = [tpc EXCEPT ![t] = "init"]
    /\ UNCHANGED <<_umls_load_attempted, self_umls, initialized, initRuns, tnew, tret>>
    /\ LinkerFrame

\* cls._instance._initialize() is entered, on the object cls._instance names now
InitEnter(t) ==
    /\ tpc[t] = "init"
    /\ tnew' = [tnew EXCEPT ![t] = _instance]
    /\ initRuns' = initRuns + 1
    /\ tpc' = [tpc EXCEPT ![t] = "loading"]
    /\ UNCHANGED <<_umls_load_attempted, self_umls, _instance, initialized, tret>>
    /\ LinkerFrame

\* _initialize returns with the model loaded, or the load raises and the exception
\* reaches the except clause of _get_umls
InitReturn(t) ==
    /\ tpc[t] = "loading"
    /\ IF umlsLoadable
       THEN /\ initialized' = initialized \cup {tnew[t]}
            /\ tpc' = [tpc EXCEPT ![t] = "newret"]
       ELSE /\ initialized' = initialized
            /\ tpc' = [tpc EXCEPT ![t] = "except"]
    /\ UNCHANGED <<_umls_load_attempted, self_umls, _instance, initRuns, tnew, tret>>
    /\ LinkerFrame

\* return cls._instance
NewReturn(t) ==
    /\ tpc[t] = "newret"
    /\ tnew' = [tnew EXCEPT ![t] = _instance]
    /\ tpc' = [tpc EXCEPT ![t] = "store"]
    /\ UNCHANGED <<_umls_load_attempted, self_umls, _instance, initialized, initRuns,
                   tret>>
    /\ LinkerFrame

\* self.umls = UMLSLinker()
GetUmlsStore(t) ==
    /\ tpc[t] = "store"
    /\ self_umls' = tnew[t]
    /\ tpc' = [tpc EXCEPT ![t] = "ret"]
    /\ UNCHANGED <<_umls_load_attempted, _instance, initialized, initRuns, tnew, tret>>
    /\ LinkerFrame

\* except Exception: self.umls = None
GetUmlsExcept(t) ==
    /\ tpc[t] = "except"
    /\ self_umls' = 0
    /\ tpc' = [tpc EXCEPT ![t] = "ret"]
    /\ UNCHANGED <<_umls_load_attempted, _instance, initialized, initRuns, tnew, tret>>
    /\ LinkerFrame

\* return self.umls
GetUmlsReturn(t) ==
    /\ tpc[t] = "ret"
    /\ tret' = [tret EXCEPT ![t] =
                  [done |-> TRUE, val |-> self_umls, loading |-> LoadRunning,
                   loaded |-> self_umls \in initialized]]
    /\ tpc' = [tpc EXCEPT ![t] = "done"]
    /\ UNCHANGED <<_umls_load_attempted, self_umls, _instance, initialized, initRuns,
                   tnew>>
    /\ LinkerFrame

\* the thread serves its next request
NextUse(t) ==
    /\ tpc[t] = "done"
    /\ tpc' = [tpc EXCEPT ![t] = "call"]
    /\ tret' = [tret EXCEPT ![t] = NoReturn]
    /\ UNCHANGED <<_umls_load_attempted, self_umls, _instance, initialized, initRuns,
                   tnew>>
    /\ LinkerFrame

LinkerStep(t) ==
    \/ GetUmlsTest(t)
    \/ GetUmlsMark(t)
    \/ NewTest(t)
    \/ NewCreate(t)
    \/ InitEnter(t)
    \/ InitReturn(t)
    \/ NewReturn(t)
    \/ GetUmlsStore(t)
    \/ GetUmlsExcept(t)
    \/ GetUmlsReturn(t)
    \/ NextUse(t)

NextLinker == \E t \in Threads : LinkerStep(t)

SpecLinker == InitLinker /\ [][NextLinker]_vars

\* C11: over all interleavings of the request threads, _initialize is entered at most
\* once in the process, and where the load succeeds every thread that has returned from
\* _get_umls got a linker (never None), an initialized one, the same one as the others
C11_LinkerInitOnce ==
    /\ initRuns <= 1
    /\ \A t \in Threads :
         (tret[t].done /\ umlsLoadable) =>
            /\ tret[t].val # 0
            /\ tret[t].loaded
            /\ \A u \in Threads : tret[u].done => tret[u].val = tret[t].val

-----------------------------------------------------------------------------
(* Properties of the blend, the fusion and the response                    *)

\* C12: after the re-rank loop every candidate carries retrieval_norm, the min-max
\* normalisation of its retrieval score over the candidate set, within [0,1]; its
\* feasibility_norm is feasibility_score / 100, 0 when the score is null; and its score
\* is (1 - w) * retrieval_norm + w * feasibility_norm, within [0,1]
C12_Blend ==
    \A i \in DOMAIN evaluated :
        LET h == evaluated[i]
            lo == RatMinSeq(rvals)
            hi == RatMaxSeq(rvals)
            rn == h.retrieval_score.val
            fn == IF h.feasibility_score.has
                  THEN <<h.feasibility_score.val, 100>> ELSE <<0, 1>>
            w == req.feasibility_weight
        IN  /\ w \in 0..10
            /\ h.retrieval_score.has
            /\ lo # hi => rn[1] * (hi[1] * lo[2] - lo[1] * hi[2]) * rvals[i][2]
                            = rn[2] * (rvals[i][1] * lo[2] - lo[1] * rvals[i][2]) * hi[2]
            /\ 0 <= rn[1] /\ rn[1] <= rn[2]
            /\ h.score[1] * 10 * rn[2] * fn[2]
                 = h.score[2] * ((10 - w) * rn[1] * fn[2] + w * fn[1] * rn[2])
            /\ 0 <= h.score[1] /\ h.score[1] <= h.score[2]

\* C12 witness: two candidates with different retrieval scores were blended with a
\* weight strictly between 0 and 1, one with a feasibility score above 0 and one with
\* a null feasibility score
C12_Witness ==
    /\ Len(evaluated) = 2
    /\ rvals[1] # rvals[2]
    /\ req.feasibility_weight = 6
    /\ \E i, j \in DOMAIN evaluated :
         /\ evaluated[i].feasibility_score.has /\ evaluated[i].feasibility_score.val > 0
         /\ ~evaluated[j].feasibility_score.has

\* the candidate list is the one the fusion left: no re-rank has touched it yet
FusedNow == took.fusion /\ (pc = "rerank" \/ (pc = "respond" /\ ~req.has_profile))

\* 1/(60 + rank) for the 1-based rank of id in the list, 0 when id is not in it
RankTerm(list, id) ==
    IF \E r \in DOMAIN list : list[r] = id
    THEN <<1, 60 + (CHOOSE r \in DOMAIN list : list[r] = id)>>
    ELSE <<0, 1>>

C14_TruncatedIffIndexLarger ==
    (Answered /\ req.use_candidate_total) =>
        (resp.truncated <=> total_value > Len(lexHits))

\* C15: when the candidate pool of a rank request is not empty and every candidate was
\* scored infeasible, the response has no hit and a candidate_total above 0
C15_AllInfeasible ==
    (/\ Answered
     /\ req.endpoint = "rank"
     /\ evaluated # <<>>
     /\ \A i \in DOMAIN evaluated : evaluated[i].is_feasible = "false") =>
        /\ resp.hits = <<>>
        /\ resp.candidate_total.has
        /\ resp.candidate_total.val > 0

-----------------------------------------------------------------------------
(* The criteria parser called on its own                                   *)

\* what the two age patterns capture: nothing, or a number of one to three digits
ParseAges == {None} \cup {Some(v) : v \in {0, 18, 110, 121, 999}}

\* what the ECOG patterns capture: digits 0..9
ParseEcogRanges == {NonePair, [has |-> TRUE, val |-> <<0, 1>>], [has |-> TRUE, val |-> <<1, 6>>]}

ParseEcogLtes == {None, Some(2), Some(7)}

ParseEcogSimples == {NonePair, [has |-> TRUE, val |-> <<0, 1>>], [has |-> TRUE, val |-> <<6, 7>>]}

\* the dictionary keys whose terms stand in the inclusion half and in the exclusion half
ParseInclConds == {<<>>, <<sNSCLC>>, <<sNSCLC, sMelanoma>>}

ParseExclConds == {<<>>, <<sNSCLC>>}

ParseExclFlags == {<<>>, <<sPregnancy>>}

ParseTexts ==
    {EmptyText} \cup
    {[PlainText EXCEPT !.ageMin = a, !.ageMax = b, !.ecogRange = er, !.ecogLte = el,
                       !.ecogSimple = es, !.inclConds = ic, !.exclConds = ec,
                       !.exclFlags = ef] :
        a \in ParseAges, b \in ParseAges, er \in ParseEcogRanges, el \in ParseEcogLtes,
        es \in ParseEcogSimples, ic \in ParseInclConds, ec \in ParseExclConds,
        ef \in ParseExclFlags}

InitParse ==
    /\ ScoreOff /\ PipelineOff /\ LinkerOff /\ DenseOff /\ JobsOff
    /\ artifacts = "missing"
    /\ umlsLoadable = FALSE
    /\ pPhase = "in"
    /\ pText \in ParseTexts
    /\ pParsed = EmptyDict

\* CriteriaParser.parse(criteria_text)
ParseCall ==
    /\ pPhase = "in"
    /\ pPhase' = "out"
    /\ pParsed' = Parse(pText)
    /\ pText' = pText
    /\ UNCHANGED <<scoreVars, procVars, reqVars, histVars, linkerVars, dLog, jobVars>>

NextParse == ParseCall

SpecParse == InitParse /\ [][NextParse]_vars

\* C16: the parsed age_range (lo, hi) satisfies 0 <= lo <= hi <= 120 whatever numbers
\* of up to three digits the age expressions of the text carry
C16_AgeRangeOrdered ==
    (pPhase = "out" /\ pText.present) =>
        /\ 0 <= pParsed.age_range[1]
        /\ pParsed.age_range[1] <= pParsed.age_range[2]
        /\ pParsed.age_range[2] <= 120

\* C17: every value of the parsed ecog list is within 0..5, whichever of the three
\* ECOG patterns matched
C17_EcogWithin0to5 ==
    (pPhase = "out" /\ pText.present) =>
        \A i \in DOMAIN pParsed.ecog : pParsed.ecog[i] \in 0..5

\* C18: no key of the parsed exclusions is also in the parsed conditions
C18_ExclusionsDisjoint ==
    (pPhase = "out" /\ pText.present) =>
        Range(pParsed.exclusions) \cap Range(pParsed.conditions) = {}

-----------------------------------------------------------------------------
(* Purity of the scorer                                                    *)

\* C19: a call of score_patient leaves the profile, the trial metadata and the cached
\* parsed_criteria dict inside the metadata as they were passed
C19_ScoringPure ==
    sPhase = "out" => (sProfileOut = sProfile /\ sMetaOut = sMeta)

-----------------------------------------------------------------------------
(* The dense client called on its own (vector_search.py)                   *)

\* the calls made to one VectorSearch object in a run
MaxCalls == 3

\* the artifacts on disk: one of the two files missing, both readable, the index file
\* unreadable by faiss.read_index, the metadata file not valid JSON
DenseArtifacts == {"missing", "present", "corrupt_index", "corrupt_meta"}

\* VectorSearch._load: the object after the call and whether the call raised
LoadOutcome(v, arts) ==
    IF v._loaded THEN [raised |-> FALSE, v |-> v]
    ELSE IF arts = "corrupt_index" THEN [raised |-> TRUE, v |-> v]
    ELSE IF arts = "corrupt_meta" THEN [raised |-> TRUE, v |-> [v EXCEPT !._index = TRUE]]
    ELSE [raised |-> FALSE, v |-> VsLoad(v, arts)]

InitDense ==
    /\ ScoreOff /\ PipelineOff /\ ParseOff /\ LinkerOff /\ JobsOff
    /\ artifacts \in DenseArtifacts
    /\ umlsLoadable = FALSE
    /\ dLog = <<>>

DenseFrame ==
    UNCHANGED <<scoreVars, artifacts, umlsLoadable, feasibility_scorer, norms, reqVars,
                histVars, parseVars, linkerVars, jobVars>>

\* vector_search.ready
DenseReady ==
    /\ Len(dLog) < MaxCalls
    /\ \E out \in {LoadOutcome(vector_search, artifacts)} :
         /\ vector_search' = out.v
         /\ dLog' = Append(dLog, [op |-> "ready", raised |-> out.raised,
                                  ready |-> ~out.raised /\ VsReady(out.v),
                                  result |-> <<>>])
    /\ DenseFrame

\* vector_search.search(query)
DenseSearch ==
    /\ Len(dLog) < MaxCalls
    /\ \E query \in SearchTexts, results \in DenseOutcomes,
          out \in {LoadOutcome(vector_search, artifacts)} :
         IF query = <<>>
         THEN /\ results = <<>>
              /\ vector_search' = vector_search
              /\ dLog' = Append(dLog, [op |-> "search", raised |-> FALSE,
                                       ready |-> FALSE, result |-> <<>>])
         ELSE /\ vector_search' = out.v
              /\ (out.raised \/ ~VsReady(out.v)) => results = <<>>
              /\ dLog' = Append(dLog, [op |-> "search", raised |-> out.raised,
                                       ready |-> ~out.raised /\ VsReady(out.v),
                                       result |-> results])
    /\ DenseFrame

NextDense == DenseReady \/ DenseSearch

SpecDense == InitDense /\ [][NextDense]_vars

\* C20: while the dense artifacts are absent or corrupt, no call to the dense client
\* raises, ready is false and search returns the empty list, on the first call and on
\* every later one
C20_NotReadyWithoutError ==
    artifacts # "present" =>
        \A i \in DOMAIN dLog :
            /\ ~dLog[i].raised
            /\ ~dLog[i].ready
            /\ dLog[i].result = <<>>

-----------------------------------------------------------------------------
(* Properties of the rules of the scorer                                   *)

\* the call went through the rules: it neither raised nor ended at a hard exclusion
RulesApplied ==
    /\ sPhase = "out"
    /\ ~sResult.raised
    /\ \A i \in DOMAIN sResult.reasons : sResult.reasons[i].kind # "Hard Exclusion"

\* the lab rules of the trial for which the patient has a value
CallCheckedLabs ==
    CheckedLabs(sProfile, IF "labs" \in sResult.parsed_criteria.keys
                          THEN sResult.parsed_criteria.labs ELSE <<>>)

\* 'patient_value operator threshold' for the five operators
ExactHolds(val, op, threshold) ==
    \/ op = "<" /\ val < threshold
    \/ op = "<=" /\ val <= threshold
    \/ op = "=" /\ val = threshold
    \/ op = ">=" /\ val >= threshold
    \/ op = ">" /\ val > threshold

\* C21: every lab rule with one of the operators < <= = >= > for which the patient has
\* a value passes exactly when 'value operator threshold' is true; a pass is reported
\* as passed, a failure adds a failure reason and makes the trial infeasible; the labs
\* contribute min(5 * passes, 15)
C21_LabRule ==
    RulesApplied =>
        LET checked == CallCheckedLabs
            holds(i) == ExactHolds(PatientLab(sProfile, checked[i].name),
                                   checked[i].operator, checked[i].value)
            passes == Cardinality({i \in DOMAIN checked : holds(i)})
        IN  /\ \A i \in DOMAIN checked :
                 checked[i].operator \in {"<", "<=", "=", ">=", ">"} =>
                    IF holds(i)
                    THEN \E r \in DOMAIN sResult.reasons :
                            sResult.reasons[r] = Reason("Lab Passed", checked[i].name)
                    ELSE /\ ~sResult.is_feasible
                         /\ \E r \in DOMAIN sResult.reasons :
                               sResult.reasons[r] = Reason("Lab Failed", checked[i].name)
            /\ LabRule(sProfile, sResult.parsed_criteria).pts = Min2(5 * passes, 15)

\* the points the patient's prior-lines count has earned, read off the reasons
LinesPoints ==
    10 * Cardinality({r \in DOMAIN sResult.reasons :
            sResult.reasons[r].kind \in
                {"Prior Lines >= min", "Prior Lines <= max", "Lines of Therapy"}})

\* the lines_of_therapy rule of the trial, with the default of the scorer
CallLinesRule ==
    IF "lines_of_therapy" \in sResult.parsed_criteria.keys
    THEN sResult.parsed_criteria.lines_of_therapy
    ELSE [min |-> 0, max |-> 999]

\* C22: when the profile has prior_lines, the prior-lines evidence adds exactly 10 if
\* the count is within the trial's [min, max] and makes the trial infeasible otherwise;
\* it never adds more than 10 in total
C22_LinesOfTherapy ==
    (RulesApplied /\ sProfile.prior_lines.has) =>
        /\ LinesPoints <= 10
        /\ IF CallLinesRule.min <= sProfile.prior_lines.val
              /\ sProfile.prior_lines.val <= CallLinesRule.max
           THEN LinesPoints = 10
           ELSE ~sResult.is_feasible

\* the trial's indications of the call: parsed conditions and structured conditions
CallTrialConditions ==
    Range(sResult.parsed_criteria.conditions)
        \cup (IF sMeta.given THEN Range(sMeta.conditions) ELSE {})

\* the patient's CUIs of the call: the ones passed, or the ones the linker extracts
CallPatientCuis ==
    IF ~sUmls THEN {}
    ELSE IF sCuis.has THEN sCuis.val
    ELSE UNION {LinkerCuis(c) : c \in Range(sProfile.conditions)}

CallCuisMatch ==
    (CallPatientCuis \cap (IF sMeta.given THEN Range(sMeta.conditions_cuis) ELSE {})) # {}

CallStringMatch ==
    \E p \in Range(sProfile.conditions) : \E t \in CallTrialConditions :
        IsSubstr(Lower(p), Lower(t)) \/ IsSubstr(Lower(t), Lower(p))

CallConditionRule ==
    ConditionRule(sProfile, sResult.parsed_criteria,
                  IF sMeta.given THEN sMeta.conditions ELSE <<>>,
                  IF sMeta.given THEN sMeta.conditions_cuis ELSE <<>>,
                  sCuis, sUmls)

HasReason(kind) ==
    \E r \in DOMAIN sResult.reasons : sResult.reasons[r].kind = kind

C23_WitnessCuis ==
    /\ RulesApplied
    /\ CallCuisMatch /\ ~CallStringMatch
    /\ HasReason("Condition Match")

C23_WitnessMismatch ==
    /\ RulesApplied
    /\ sProfile.conditions # <<>>
    /\ HasReason("Condition Mismatch")

-----------------------------------------------------------------------------
(* Properties of /rank and of the retrieval paths                          *)

\* how the profile used for scoring has to represent one string of the request's profile
Represented(kind, item) ==
    IF NormalizeWith(kind, item) # <<>> THEN NormalizeWith(kind, item) ELSE item

\* C24: in /rank every condition and every biomarker of the request's profile is in the
\* profile used for scoring, as its canonical key when the dictionary maps it and as the
\* original string when it does not; unmapped entries of a mixed list are not dropped
C24_NormalizationKeepsUnmapped ==
    req.endpoint = "rank" =>
        /\ \A c \in Range(req.body_profile.conditions) :
              Represented("condition", c) \in Range(req.patient_profile.conditions)
        /\ \A b \in Range(req.body_profile.biomarkers) :
              Represented("biomarker", b) \in Range(req.patient_profile.biomarkers)

\* the min-max normalisation of the trial's own dense similarity over the dense results
OwnDenseNorm(n) ==
    LET scores == [i \in DOMAIN denseById |-> denseById[i][2]]
        at == CHOOSE i \in DOMAIN denseById : denseById[i][1] = n
    IN  _normalize_scores(scores)[at]

\* the hits of the fallback as they were built (and sorted, without a profile)
FallbackBuilt ==
    /\ path = "fallback"
    /\ \/ pc = "rerank"
       \/ pc = "respond" /\ ~req.has_profile

\* C25: in the dense-only fallback the score of each fetched trial is the min-max
\* normalisation of that trial's own dense similarity, whatever the order in which the
\* lexical store returns the fetched documents
C25_FallbackOwnScore ==
    FallbackBuilt =>
        \A i \in DOMAIN hits : hits[i].score = OwnDenseNorm(hits[i].nct_id)

\* C26: after the fusion the candidate order holds every id of the lexical list and every
\* id of the dense list (ids only the dense search returned included), by RRF score
\* descending
C26_FusionKeepsDenseOnly ==
    FusedNow =>
        /\ {hits[i].nct_id : i \in DOMAIN hits}
              = {lexHits[i].nct_id : i \in DOMAIN lexHits} \cup Range(denseRanked)
        /\ \A i, j \in DOMAIN hits :
              i < j => RatLe(hits[j].score, hits[i].score)

\* the re-rank of a request with a profile has run: evaluated is the list after the loop,
\* hits the list after the sort and the filter
Reranked == pc = "respond" /\ req.has_profile /\ evaluated # <<>>

NoCriteriaText(h) == ~Doc(h.nct_id).text.present

\* C27: a candidate without eligibility criteria text is not dropped by the re-rank: it
\* stays in the list with feasibility_score null and is_feasible undetermined, the scorer
\* is not called for it, and its score is (1 - feasibility_weight) * retrieval_norm
C27_NoCriteriaKept ==
    Reranked =>
        /\ \A i \in DOMAIN evaluated :
             NoCriteriaText(evaluated[i]) =>
                /\ \E j \in DOMAIN hits : hits[j] = evaluated[i]
                /\ ~evaluated[i].feasibility_score.has
                /\ evaluated[i].is_feasible = "null"
                /\ evaluated[i].feasibility_reasons
                     = <<Reason("No eligibility criteria available", <<>>)>>
                /\ evaluated[i].retrieval_score.has
                /\ evaluated[i].score[1] * 10 * evaluated[i].retrieval_score.val[2]
                     = evaluated[i].score[2] * (10 - req.feasibility_weight)
                          * evaluated[i].retrieval_score.val[1]
        /\ calls.scorer
             = Cardinality({i \in DOMAIN evaluated : ~NoCriteriaText(evaluated[i])})

\* C27 witness: a candidate without criteria text was evaluated next to a candidate the
\* scorer found infeasible; the filter dropped the latter and kept the former with a
\* positive score
C27_Witness ==
    /\ Reranked
    /\ req.feasibility_weight = 6
    /\ Len(hits) < Len(evaluated)
    /\ \E j \in DOMAIN hits :
         /\ NoCriteriaText(hits[j])
         /\ hits[j].score[1] > 0

-----------------------------------------------------------------------------
(* The ingestion job (scrape_clinical_trials.py): runs of fetch_and_store  *)
(* against a sample of the upstream API.  A study is its nct_id, a number; *)
(* 0 is a study without nct_id.  A page token is the number of the page it *)
(* asks for; 0 is no token (None, NULL).  The ingestion_state row is read  *)
(* as (NULL, 0) while it does not exist.                                   *)

MaxStudies == 6

MaxRetries == 2

MaxRuns == 2

\* the pages the upstream API serves, in order
ApiPages == << <<1, 2, 3>>, <<4, 0, 5>>, <<6>> >>

\* the page a request with the given pageToken returns (no token: the first page)
PageAt(token) == IF token = 0 THEN 1 ELSE token

\* data.get("studies") or []
StudiesOf(data) == IF data \in DOMAIN ApiPages THEN ApiPages[data] ELSE <<>>

\* data.get("nextPageToken")
NextPageToken(data) == IF data < Len(ApiPages) THEN data + 1 ELSE 0

\* a retry loop that gives up one failure too early
GiveUpEarly(attempt, max_retries) == attempt >= max_retries

\* `if attempt > max_retries: raise`
GiveUp(attempt, max_retries) == attempt > max_retries

\* a run has ended: the locals are gone, the history stays
EndRun(outcome) ==
    [ing EXCEPT !.pc = "idle", !.outcome = outcome, !.runs = @ + 1, !.tx = {}]

InitIngest ==
    /\ ScoreOff /\ PipelineOff /\ ParseOff /\ LinkerOff /\ DenseOff
    /\ artifacts = "missing"
    /\ umlsLoadable = FALSE
    /\ ing = [NoRun EXCEPT !.pc = "idle"]
    /\ idb = EmptyStore
    /\ mig = NoMigration
    /\ mdb = <<>>

IngestFrame ==
    UNCHANGED <<scoreVars, procVars, reqVars, histVars, parseVars, linkerVars, dLog,
                mig, mdb>>

\* fetch_and_store is called: the state row is read
IngestStart ==
    /\ ing.pc = "idle"
    /\ ing.runs < MaxRuns
    /\ \E max_studies \in 1..MaxStudies, max_retries \in 0..MaxRetries :
         ing' = [ing EXCEPT !.pc = "loop", !.outcome = "",
                            !.max_studies = max_studies, !.max_retries = max_retries,
                            !.page_token = idb.page_token,
                            !.total_imported = idb.processed_count,
                            !.last_commit = <<idb.page_token, idb.processed_count>>,
                            !.commits = 0]
    /\ UNCHANGED idb
    /\ IngestFrame

\* `while total_imported < max_studies`
IngestLoop ==
    /\ ing.pc = "loop"
    /\ ing' = IF ing.total_imported < ing.max_studies
              THEN [ing EXCEPT !.pc = "fetch", !.attempt = 0, !.requests = 0]
              ELSE EndRun("complete")
    /\ UNCHANGED idb
    /\ IngestFrame

\* requests.get raises, or the response is an HTTP error
FetchRaises ==
    /\ ing.pc = "fetch"
    /\ ing' = IF GiveUp(ing.attempt + 1, ing.max_retries)
              THEN [EndRun("fetch failed") EXCEPT !.attempt = @ + 1, !.requests = @ + 1]
              ELSE [ing EXCEPT !.attempt = @ + 1, !.requests = @ + 1]
    /\ UNCHANGED idb
    /\ IngestFrame

\* the request succeeds: the page of the token
FetchReturns ==
    /\ ing.pc = "fetch"
    /\ \E data \in {PageAt(ing.page_token)} :
         ing' = IF StudiesOf(data) = <<>>
                THEN [EndRun("complete") EXCEPT !.requests = @ + 1]
                ELSE [ing EXCEPT !.pc = "tx", !.requests = @ + 1, !.data = data,
                                 !.pos = 1, !.page_count = 0, !.tx = {}]
    /\ UNCHANGED idb
    /\ IngestFrame

\* one turn of `for study in studies` inside the page's transaction
TxUpsert ==
    /\ ing.pc = "tx"
    /\ ing.pos <= Len(StudiesOf(ing.data))
    /\ \E study \in {StudiesOf(ing.data)[ing.pos]} :
         ing' = IF study = 0
                THEN [ing EXCEPT !.pos = @ + 1]
                ELSE [ing EXCEPT
                        !.tx = @ \cup {study},
                        !.total_imported = @ + 1,
                        !.page_count = @ + 1,
                        !.pos = IF ing.total_imported + 1 >= ing.max_studies
                                THEN Len(StudiesOf(ing.data)) + 1 ELSE @ + 1]
    /\ UNCHANGED idb
    /\ IngestFrame

\* after the loop: page_token = nextPageToken, update_ingestion_state, and the commit of
\* `with conn`; then `if not page_token: break`
TxCommit ==
    /\ ing.pc = "tx"
    /\ ing.pos > Len(StudiesOf(ing.data))
    /\ \E page_token \in {NextPageToken(ing.data)} :
         /\ idb' = [trials |-> idb.trials \cup ing.tx,
                    page_token |-> page_token,
                    processed_count |-> idb.processed_count + ing.page_count]
         /\ ing' = IF page_token = 0
                   THEN [EndRun("complete") EXCEPT
                            !.page_token = page_token,
                            !.last_commit = <<page_token,
                                              idb.processed_count + ing.page_count>>,
                            !.commits = @ + 1]
                   ELSE [ing EXCEPT
                            !.pc = "loop", !.page_token = page_token, !.tx = {},
                            !.last_commit = <<page_token,
                                              idb.processed_count + ing.page_count>>,
                            !.commits = @ + 1]
    /\ IngestFrame

\* a statement of the transaction raises: `with conn` rolls back, the run ends
TxRaises ==
    /\ ing.pc = "tx"
    /\ ing' = EndRun("store failed")
    /\ UNCHANGED idb
    /\ IngestFrame

NextIngest ==
    \/ IngestStart
    \/ IngestLoop
    \/ FetchRaises
    \/ FetchReturns
    \/ TxUpsert
    \/ TxCommit
    \/ TxRaises

SpecIngest == InitIngest /\ [][NextIngest]_vars

\* the studies with an nct_id on the pages before the page the stored token asks for
ConsumedStudies ==
    IF idb.page_token = 0 THEN {}
    ELSE UNION {Range(ApiPages[p]) \ {0} : p \in 1..(idb.page_token - 1)}

\* C28: over any sequence of runs the stored page_token and processed_count describe the
\* studies committed: every study of a page the stored token has moved past is in the
\* store (a page cut short by max_studies is not marked as consumed), the count is the
\* number of studies committed, and the page's upserts and the state commit together
C28_ResumeSkipsNothing ==
    /\ ConsumedStudies \subseteq idb.trials
    /\ idb.page_token # 0 => idb.processed_count = Cardinality(idb.trials)

\* C29: a page's fetch is attempted at most max_retries + 1 times; when every attempt
\* failed the run has raised and the persisted state is that of the last committed page;
\* after a successful attempt the run goes on with that page
C29_BoundedRetry ==
    /\ ing.pc \in {"fetch", "tx"} => ing.requests <= ing.max_retries + 1
    /\ ing.outcome = "fetch failed" =>
          /\ ing.pc = "idle"
          /\ ing.requests = ing.max_retries + 1
          /\ <<idb.page_token, idb.processed_count>> = ing.last_commit
    /\ ing.pc = "tx" =>
          /\ ing.data = PageAt(ing.page_token)
          /\ ing.outcome = ""

\* C29 witness: a run committed a page, then failed max_retries + 1 = 3 times on the next
C29_Witness ==
    /\ ing.outcome = "fetch failed"
    /\ ing.max_retries = 2
    /\ ing.requests = 3
    /\ ing.commits > 0
    /\ idb.page_token = 2

\* a run that went on with a page after failed attempts
C29_WitnessRecovered ==
    /\ ing.pc = "tx"
    /\ ing.requests = 3

-----------------------------------------------------------------------------
(* The parsed-criteria migration (migrate_parsed_criteria.py).  A row of    *)
(* the trials table is the kind of its eligibility_criteria_raw ("text": a  *)
(* text the parser handles, "raises": a text on which the try block raises, *)
(* "none": no text) and its parsed_criteria ("null", "parsed", "empty": {}) *)

NumRows == 3

\* LIMIT 1000 of the batch query
BatchLimit == 2

RowIds == 1..NumRows

\* the rows WHERE parsed_criteria IS NULL, as the run's connection sees them
NullRows(rows) == {id \in DOMAIN rows : rows[id].parsed = "null"}

\* what the SELECT ... LIMIT may return: any BatchLimit of the NULL rows, or all of them
Batches(rows) ==
    {b \in SUBSET NullRows(rows) :
        Cardinality(b) = Min2(BatchLimit, Cardinality(NullRows(rows)))}

\* a loop body that leaves the row alone when the parse raised
RowValueSkipsErrors(kind) ==
    IF kind = "text" THEN "parsed" ELSE IF kind = "raises" THEN "null" ELSE "empty"

\* the parsed_criteria the loop body writes for a row: Json(parsed_data), or Json({})
\* in the except branch and for a row without criteria text
RowValue(kind) == IF kind = "text" THEN "parsed" ELSE "empty"

\* processed_count += 1: not in the except branch
RowCounts(kind) == IF kind = "raises" THEN 0 ELSE 1

InitMigrate ==
    /\ ScoreOff /\ PipelineOff /\ ParseOff /\ LinkerOff /\ DenseOff
    /\ artifacts = "missing"
    /\ umlsLoadable = FALSE
    /\ ing = NoRun
    /\ idb = EmptyStore
    /\ mig = [NoMigration EXCEPT !.pc = "fetch"]
    /\ mdb \in [RowIds -> [kind : {"text", "raises", "none"},
                           parsed : {"null", "parsed"}]]

MigrateFrame ==
    UNCHANGED <<scoreVars, procVars, reqVars, histVars, parseVars, linkerVars, dLog,
                ing, idb>>

\* the batch query returns rows
FetchBatch ==
    /\ mig.pc = "fetch"
    /\ \E batch \in Batches(mdb) :
         /\ batch # {}
         /\ mig' = [mig EXCEPT !.pc = "rows", !.batch = batch, !.todo = batch,
                               !.tx = {}, !.batch_num = @ + 1]
    /\ UNCHANGED mdb
    /\ MigrateFrame

\* `if not batch: break`
FetchEmpty ==
    /\ mig.pc = "fetch"
    /\ NullRows(mdb) = {}
    /\ mig' = [mig EXCEPT !.pc = "done", !.batch = {}, !.batch_num = @ + 1]
    /\ UNCHANGED mdb
    /\ MigrateFrame

\* one turn of `for row in batch`: the UPDATE of the row in the open transaction
MigrateRow ==
    /\ mig.pc = "rows"
    /\ mig.todo # {}
    /\ \E id \in {CHOOSE r \in mig.todo : \A s \in mig.todo : r <= s} :
         mig' = [mig EXCEPT
                    !.todo = @ \ {id},
                    !.tx = @ \cup {<<id, RowValue(mdb[id].kind)>>},
                    !.processed_count = @ + RowCounts(mdb[id].kind)]
    /\ UNCHANGED mdb
    /\ MigrateFrame

\* conn.commit() after the loop
CommitBatch ==
    /\ mig.pc = "rows"
    /\ mig.todo = {}
    /\ mdb' = [id \in DOMAIN mdb |->
                 IF \E u \in mig.tx : u[1] = id
                 THEN [mdb[id] EXCEPT !.parsed = (CHOOSE u \in mig.tx : u[1] = id)[2]]
                 ELSE mdb[id]]
    /\ mig' = [mig EXCEPT !.pc = "fetch", !.tx = {},
                          !.migrated = @ \cup {u[1] : u \in mig.tx}]
    /\ MigrateFrame

\* a statement raises outside the inner try: rollback and re-raise
MigrateRaises ==
    /\ mig.pc \in {"fetch", "rows"}
    /\ mig' = [mig EXCEPT !.pc = "failed", !.tx = {}, !.todo = {}]
    /\ UNCHANGED mdb
    /\ MigrateFrame

NextMigrate ==
    \/ FetchBatch
    \/ FetchEmpty
    \/ MigrateRow
    \/ CommitBatch
    \/ MigrateRaises

\* the script runs to its end: a step is taken whenever one can be
SpecMigrate == InitMigrate /\ [][NextMigrate]_vars /\ WF_vars(NextMigrate)

\* C30: the migration terminates: at every commit of a batch each row of the batch has
\* a non-null parsed_criteria (rows whose parse raised and rows without text included,
\* as the empty record), so the NULL rows strictly shrink, and the loop ends
C30_MigrationTerminates ==
    /\ [][(mig.pc = "rows" /\ mig'.pc = "fetch") =>
            /\ \A id \in mig.batch : mdb'[id].parsed # "null"
            /\ NullRows(mdb') \subseteq NullRows(mdb)
            /\ NullRows(mdb') # NullRows(mdb)]_vars
    /\ <>(mig.pc \in {"done", "failed"})

\* C30 witness: the loop ended on an empty batch after two or more batches in which a
\* row whose parse raised and a row without text were given the empty record
C30_Witness ==
    /\ mig.pc = "done"
    /\ mig.batch_num >= 3
    /\ NullRows(mdb) = {}
    /\ \E r, s \in mig.migrated :
         /\ mdb[r].kind = "raises" /\ mdb[r].parsed = "empty"
         /\ mdb[s].kind = "none" /\ mdb[s].parsed = "empty"

====
